---- MODULE Spec2Model ----
(***************************************************************************)
(* Player progression, combat resolution and persistence of lord_rust.     *)
(*                                                                         *)
(* One process is one run of main (src/src/main.rs): init_db_pool,         *)
(* daily_reset, login, main_menu, update_player.  Process p plays player   *)
(* p.  The store (players rows, last_reset marker, news) is shared by all  *)
(* processes; every SQL statement or committed transaction is one step.    *)
(***************************************************************************)
EXTENDS Integers, Sequences, FiniteSets, TLC

(***************************************************************************)
(* Bounds of the model.                                                    *)
(***************************************************************************)
\* calendar days that may pass after the first one
MaxDays == 1
\* menu choices (forest, tavern, duel) made in all
MaxActs == 1
\* forest encounters started in all
MaxFights == 1
\* runs of main started in all
MaxRuns == 2
\* outcomes sampled at each end of a random range
DrawWidth == 1
\* rounds of one battle or duel the model follows
MaxRounds == 3
\* the leveling policy is tried on levels 1 .. MaxLevelIn, exp 0 .. MaxExpIn
MaxLevelIn == 3
MaxExpIn == 650
\* combat on given combatants takes players of levels 1 .. MaxFighterLevel
MaxFighterLevel == 4
\* menu choices made in all when two sessions are followed side by side
MaxRaceActs == 2
\* flirts made in all when the courtship of Violet is followed to its end
MaxFlirts == 11

(***************************************************************************)
(* Program constants.                                                      *)
(***************************************************************************)
MAX_DAILY_FOREST_FIGHTS == 10
\* the attack above which a monster kill is logged
KILL_NEWS_ATTACK == 10
\* price of a drink in the tavern
DRINK_PRICE == 5
\* romance needed to marry Violet
MARRIAGE_ROMANCE == 5
\* experience per level of a defeated duel target
DUEL_XP_PER_LEVEL == 50

PlayerIds == {1, 2}

Max(a, b) == IF a >= b THEN a ELSE b
Min(a, b) == IF a <= b THEN a ELSE b

(***************************************************************************)
(* rng.random_range(lo..=hi): the outcomes the model samples, DrawWidth    *)
(* values from each end of the range.                                      *)
(***************************************************************************)
Draws(lo, hi) == {x \in lo..hi : x - lo < DrawWidth \/ hi - x < DrawWidth}

(***************************************************************************)
(* Dates.  Local::now().format("%Y-%m-%d") yields a fixed-width string of  *)
(* zero-padded decimal fields; the model keeps the two low digits of a day *)
(* count.  Strings are compared lexicographically, the absent marker is    *)
(* read as the empty string.                                               *)
(***************************************************************************)
Days == 9 .. (10 + MaxDays)
FormatDate(d) == <<d \div 10, d % 10>>
NoMarker == <<>>

RECURSIVE StrLess(_, _)
StrLess(a, b) ==
    IF b = <<>> THEN FALSE
    ELSE IF a = <<>> THEN TRUE
    ELSE IF Head(a) < Head(b) THEN TRUE
    ELSE IF Head(a) > Head(b) THEN FALSE
    ELSE StrLess(Tail(a), Tail(b))

\* a faulty variant: the comparison of daily_reset with <= for <
ResetDueOrEqual(last_reset, today_str) == ~StrLess(today_str, last_reset)

\* last_reset.as_deref().unwrap_or("") < today.as_str()
ResetDue(last_reset, today_str) == StrLess(last_reset, today_str)

(***************************************************************************)
(* Player                                                                  *)
(***************************************************************************)
PlayerName(i) == IF i = 1 THEN "Ann" ELSE IF i = 2 THEN "Bob" ELSE "Cid"

\* the row create_player inserts
NewPlayer(i) ==
    [id |-> i, name |-> PlayerName(i), password |-> "",
     level |-> 1, exp |-> 0, gold |-> 100, current_hp |-> 20, max_hp |-> 20,
     attack |-> 5, defense |-> 2, forest_fights |-> MAX_DAILY_FOREST_FIGHTS,
     alive |-> TRUE, romance |-> 0, spouse |-> ""]

NoPlayer == [id |-> 0]

\* a faulty variant: one threshold for every level
XpToNextLevelFlat(p) == 100

XpToNextLevel(p) == p.level * 100

\* a faulty variant: the level is raised before the threshold is taken
LevelUpOnceLateThreshold(p) ==
    [p EXCEPT !.exp = @ - (p.level + 1) * 100,
              !.level = @ + 1,
              !.max_hp = @ + 10,
              !.current_hp = p.max_hp + 10,
              !.attack = @ + 2,
              !.defense = @ + 1]

\* one iteration of try_level_up's loop body
LevelUpOnce(p) ==
    [p EXCEPT !.exp = @ - XpToNextLevel(p),
              !.level = @ + 1,
              !.max_hp = @ + 10,
              !.current_hp = p.max_hp + 10,
              !.attack = @ + 2,
              !.defense = @ + 1]

\* a faulty variant: the threshold is never applied
LevelUpSkipped(p) == p

RECURSIVE TryLevelUp(_)
TryLevelUp(p) ==
    IF p.exp >= XpToNextLevel(p) THEN TryLevelUp(LevelUpOnce(p)) ELSE p

\* a faulty variant: one task for the call, however many levels it gains
LevelUpSpawnsOnce(p) == IF p.exp >= XpToNextLevel(p) THEN 1 ELSE 0

\* the log_event tasks one call of try_level_up spawns
RECURSIVE LevelUpSpawns(_)
LevelUpSpawns(p) ==
    IF p.exp >= XpToNextLevel(p) THEN 1 + LevelUpSpawns(LevelUpOnce(p)) ELSE 0

(***************************************************************************)
(* Monster                                                                 *)
(***************************************************************************)
MONSTER_TEMPLATES ==
    << [name |-> "Wild Boar",     base_hp |-> 15, base_attack |-> 4],
       [name |-> "Goblin",        base_hp |-> 20, base_attack |-> 5],
       [name |-> "Ogre",          base_hp |-> 30, base_attack |-> 6],
       [name |-> "Giant Spider",  base_hp |-> 25, base_attack |-> 5],
       [name |-> "Black Knight",  base_hp |-> 35, base_attack |-> 8],
       [name |-> "Forest Dragon", base_hp |-> 50, base_attack |-> 12] >>

NoMonster == [name |-> ""]

\* a faulty variant: the factor rises at every even level
LevelFactorEarly(player_level) == 1 + player_level \div 2

LevelFactor(player_level) == 1 + (player_level - 1) \div 2

MonsterOf(t, hp, attack, gold_draw) ==
    [name |-> t.name, hp |-> hp, attack |-> attack,
     exp_reward |-> Max(hp \div 2 + attack, 1),
     gold_reward |-> Max(gold_draw, 1)]

GenerateMonster(player_level) ==
    UNION { UNION { UNION {
        { MonsterOf(MONSTER_TEMPLATES[k], hp, attack, g) :
              g \in Draws(1, attack * 3) } :
          attack \in { MONSTER_TEMPLATES[k].base_attack * LevelFactor(player_level) + r :
                         r \in Draws(0, player_level) } } :
          hp \in { MONSTER_TEMPLATES[k].base_hp * LevelFactor(player_level) + r :
                         r \in Draws(0, 5 * player_level) } } :
          k \in Draws(1, Len(MONSTER_TEMPLATES)) }

(***************************************************************************)
(* Combat: the statements both loops share.                                *)
(***************************************************************************)
\* a faulty variant: the strike takes nothing
HitMisses(p, damage) == p

\* player.current_hp -= damage
Hit(p, damage) == [p EXCEPT !.current_hp = @ - damage]

\* faulty variants: death without the clamp of current_hp, and the clamp
\* without the death
DieUnclamped(p) == [p EXCEPT !.alive = FALSE]

DieStillAlive(p) == [p EXCEPT !.current_hp = 0]

\* player.current_hp = 0; player.alive = false
Die(p) == [p EXCEPT !.current_hp = 0, !.alive = FALSE]

\* let stolen_gold = loser.gold / 2
StolenGold(loser) == loser.gold \div 2

\* a faulty variant: the loot is taken from the loser twice
LoseGoldTwice(loser, stolen_gold) ==
    IF stolen_gold > 0 THEN [loser EXCEPT !.gold = @ - 2 * stolen_gold] ELSE loser

\* if stolen_gold > 0 { loser.gold -= stolen_gold; winner.gold += stolen_gold }
LoseGold(loser, stolen_gold) ==
    IF stolen_gold > 0 THEN [loser EXCEPT !.gold = @ - stolen_gold] ELSE loser

GainGold(winner, stolen_gold) ==
    IF stolen_gold > 0 THEN [winner EXCEPT !.gold = @ + stolen_gold] ELSE winner

(***************************************************************************)
(* One iteration of explore_forest's battle loop.  dm and dp are the two   *)
(* damage draws; dp is used only when the monster survives the strike.     *)
(* The result names the news event the iteration logs, if any, and counts  *)
(* the log tasks try_level_up spawned.                                     *)
\* a faulty variant of the battle round: the two rewards change places
ForestRoundRewardsSwapped(p, m, dm, dp) ==
    LET m1 == [m EXCEPT !.hp = @ - dm] IN
    IF m1.hp <= 0
    THEN LET p1 == [p EXCEPT !.exp = @ + m.gold_reward, !.gold = @ + m.exp_reward] IN
         [player  |-> TryLevelUp(p1),
          monster |-> [m1 EXCEPT !.hp = 0],
          spawns  |-> LevelUpSpawns(p1),
          event   |-> IF m.attack > KILL_NEWS_ATTACK THEN "kill" ELSE "none"]
    ELSE LET p1 == Hit(p, dp) IN
         IF p1.current_hp <= 0
         THEN [player |-> Die(p1), monster |-> m1, spawns |-> 0, event |-> "death"]
         ELSE [player |-> p1, monster |-> m1, spawns |-> 0, event |-> "none"]

\* a faulty variant of the battle round: the monster strikes back before
\* its hit points are looked at
ForestRoundDyingBlow(p, m, dm, dp) ==
    LET m1 == [m EXCEPT !.hp = @ - dm]
        p0 == Hit(p, dp)
    IN
    IF m1.hp <= 0
    THEN LET p1 == [p0 EXCEPT !.exp = @ + m.exp_reward, !.gold = @ + m.gold_reward] IN
         [player  |-> TryLevelUp(p1),
          monster |-> [m1 EXCEPT !.hp = 0],
          spawns  |-> LevelUpSpawns(p1),
          event   |-> IF m.attack > KILL_NEWS_ATTACK THEN "kill" ELSE "none"]
    ELSE IF p0.current_hp <= 0
         THEN [player |-> Die(p0), monster |-> m1, spawns |-> 0, event |-> "death"]
         ELSE [player |-> p0, monster |-> m1, spawns |-> 0, event |-> "none"]

\* a faulty variant of the battle round: the filter reads the player's
\* attack for the monster's
ForestRoundFilterOnPlayer(p, m, dm, dp) ==
    LET m1 == [m EXCEPT !.hp = @ - dm] IN
    IF m1.hp <= 0
    THEN LET p1 == [p EXCEPT !.exp = @ + m.exp_reward, !.gold = @ + m.gold_reward] IN
         [player  |-> TryLevelUp(p1),
          monster |-> [m1 EXCEPT !.hp = 0],
          spawns  |-> LevelUpSpawns(p1),
          event   |-> IF p.attack > KILL_NEWS_ATTACK THEN "kill" ELSE "none"]
    ELSE LET p1 == Hit(p, dp) IN
         IF p1.current_hp <= 0
         THEN [player |-> Die(p1), monster |-> m1, spawns |-> 0, event |-> "death"]
         ELSE [player |-> p1, monster |-> m1, spawns |-> 0, event |-> "none"]

\* a faulty variant of the battle round: the death is not reported
ForestRoundSilentDeath(p, m, dm, dp) ==
    LET m1 == [m EXCEPT !.hp = @ - dm] IN
    IF m1.hp <= 0
    THEN LET p1 == [p EXCEPT !.exp = @ + m.exp_reward, !.gold = @ + m.gold_reward] IN
         [player  |-> TryLevelUp(p1),
          monster |-> [m1 EXCEPT !.hp = 0],
          spawns  |-> LevelUpSpawns(p1),
          event   |-> IF m.attack > KILL_NEWS_ATTACK THEN "kill" ELSE "none"]
    ELSE LET p1 == Hit(p, dp) IN
         IF p1.current_hp <= 0
         THEN [player |-> Die(p1), monster |-> m1, spawns |-> 0, event |-> "none"]
         ELSE [player |-> p1, monster |-> m1, spawns |-> 0, event |-> "none"]

(***************************************************************************)
ForestRound(p, m, dm, dp) ==
    LET m1 == [m EXCEPT !.hp = @ - dm] IN
    IF m1.hp <= 0
    THEN LET p1 == [p EXCEPT !.exp = @ + m.exp_reward, !.gold = @ + m.gold_reward] IN
         [player  |-> TryLevelUp(p1),
          monster |-> [m1 EXCEPT !.hp = 0],
          spawns  |-> LevelUpSpawns(p1),
          event   |-> IF m.attack > KILL_NEWS_ATTACK THEN "kill" ELSE "none"]
    ELSE LET p1 == Hit(p, dp) IN
         IF p1.current_hp <= 0
         THEN [player |-> Die(p1), monster |-> m1, spawns |-> 0, event |-> "death"]
         ELSE [player |-> p1, monster |-> m1, spawns |-> 0, event |-> "none"]

\* a faulty variant: the guard lets a budget of 0 through
NoFightsLeftBelowZero(p) == p.forest_fights < 0

\* if player.forest_fights <= 0 { .. return; }
NoFightsLeft(p) == p.forest_fights <= 0

\* while player.forest_fights > 0 && player.alive
CanFight(p) == p.forest_fights > 0 /\ p.alive

\* faulty variants: the fight is spent twice, or not at all
SpendTwoFights(p) == [p EXCEPT !.forest_fights = @ - 2]

SpendNoFight(p) == p

\* player.forest_fights -= 1, after the battle loop
SpendFight(p) == [p EXCEPT !.forest_fights = @ - 1]

(***************************************************************************)
(* One iteration of challenge_player's duel loop.                          *)
(***************************************************************************)
\* a faulty variant: the victory is logged under the filter of the forest
DuelRoundFiltered(p, t, dt, dp) ==
    LET t1 == Hit(t, dt) IN
    IF t1.current_hp <= 0
    THEN LET stolen_gold == StolenGold(t1)
             xp_gain == t1.level * DUEL_XP_PER_LEVEL
             p1 == GainGold(p, stolen_gold)
             p2 == IF xp_gain > 0 THEN [p1 EXCEPT !.exp = @ + xp_gain] ELSE p1
         IN [player |-> IF xp_gain > 0 THEN TryLevelUp(p2) ELSE p2,
             target |-> LoseGold(Die(t1), stolen_gold),
             spawns |-> IF xp_gain > 0 THEN LevelUpSpawns(p2) ELSE 0,
             event  |-> IF t.attack > KILL_NEWS_ATTACK THEN "duel" ELSE "none"]
    ELSE LET p1 == Hit(p, dp) IN
         IF p1.current_hp <= 0
         THEN LET stolen_gold == StolenGold(p1) IN
              [player |-> LoseGold(Die(p1), stolen_gold),
               target |-> GainGold(t1, stolen_gold),
               spawns |-> 0,
               event  |-> "duel"]
         ELSE [player |-> p1, target |-> t1, spawns |-> 0, event |-> "none"]

\* a faulty variant: the defeated target loses the day's forest fights too
DuelRoundTiring(p, t, dt, dp) ==
    LET t1 == Hit(t, dt) IN
    IF t1.current_hp <= 0
    THEN LET stolen_gold == StolenGold(t1)
             xp_gain == t1.level * DUEL_XP_PER_LEVEL
             p1 == GainGold(p, stolen_gold)
             p2 == IF xp_gain > 0 THEN [p1 EXCEPT !.exp = @ + xp_gain] ELSE p1
         IN [player |-> IF xp_gain > 0 THEN TryLevelUp(p2) ELSE p2,
             target |-> [LoseGold(Die(t1), stolen_gold) EXCEPT !.forest_fights = 0],
             spawns |-> IF xp_gain > 0 THEN LevelUpSpawns(p2) ELSE 0,
             event  |-> "duel"]
    ELSE LET p1 == Hit(p, dp) IN
         IF p1.current_hp <= 0
         THEN LET stolen_gold == StolenGold(p1) IN
              [player |-> LoseGold(Die(p1), stolen_gold),
               target |-> GainGold(t1, stolen_gold),
               spawns |-> 0,
               event  |-> "duel"]
         ELSE [player |-> p1, target |-> t1, spawns |-> 0, event |-> "none"]

\* a faulty variant: the target that wins is paid experience as well
DuelRoundXpBothWays(p, t, dt, dp) ==
    LET t1 == Hit(t, dt) IN
    IF t1.current_hp <= 0
    THEN LET stolen_gold == StolenGold(t1)
             xp_gain == t1.level * DUEL_XP_PER_LEVEL
             p1 == GainGold(p, stolen_gold)
             p2 == IF xp_gain > 0 THEN [p1 EXCEPT !.exp = @ + xp_gain] ELSE p1
         IN [player |-> IF xp_gain > 0 THEN TryLevelUp(p2) ELSE p2,
             target |-> LoseGold(Die(t1), stolen_gold),
             spawns |-> IF xp_gain > 0 THEN LevelUpSpawns(p2) ELSE 0,
             event  |-> "duel"]
    ELSE LET p1 == Hit(p, dp) IN
         IF p1.current_hp <= 0
         THEN LET stolen_gold == StolenGold(p1)
                  t2 == GainGold(t1, stolen_gold)
              IN [player |-> LoseGold(Die(p1), stolen_gold),
                  target |-> TryLevelUp([t2 EXCEPT !.exp = @ + p1.level * DUEL_XP_PER_LEVEL]),
                  spawns |-> 0,
                  event  |-> "duel"]
         ELSE [player |-> p1, target |-> t1, spawns |-> 0, event |-> "none"]

DuelRound(p, t, dt, dp) ==
    LET t1 == Hit(t, dt) IN
    IF t1.current_hp <= 0
    THEN LET stolen_gold == StolenGold(t1)
             xp_gain == t1.level * DUEL_XP_PER_LEVEL
             p1 == GainGold(p, stolen_gold)
             p2 == IF xp_gain > 0 THEN [p1 EXCEPT !.exp = @ + xp_gain] ELSE p1
         IN [player |-> IF xp_gain > 0 THEN TryLevelUp(p2) ELSE p2,
             target |-> LoseGold(Die(t1), stolen_gold),
             spawns |-> IF xp_gain > 0 THEN LevelUpSpawns(p2) ELSE 0,
             event  |-> "duel"]
    ELSE LET p1 == Hit(p, dp) IN
         IF p1.current_hp <= 0
         THEN LET stolen_gold == StolenGold(p1) IN
              [player |-> LoseGold(Die(p1), stolen_gold),
               target |-> GainGold(t1, stolen_gold),
               spawns |-> 0,
               event  |-> "duel"]
         ELSE [player |-> p1, target |-> t1, spawns |-> 0, event |-> "none"]

(***************************************************************************)
(* The store                                                               *)
(***************************************************************************)
\* UPDATE players SET level=.., .., spouse=.. WHERE id=..  (update_player and
\* both statements of the duel transaction)
UpdateRow(row, p) ==
    [row EXCEPT !.level = p.level, !.exp = p.exp, !.gold = p.gold,
                !.current_hp = p.current_hp, !.max_hp = p.max_hp,
                !.attack = p.attack, !.defense = p.defense,
                !.forest_fights = p.forest_fights, !.alive = p.alive,
                !.romance = p.romance, !.spouse = p.spouse]

\* a faulty variant: the UPDATE without `alive = TRUE`
ResetRowNoRevive(row) ==
    [row EXCEPT !.forest_fights = MAX_DAILY_FOREST_FIGHTS,
                !.current_hp = row.max_hp]

\* a faulty variant: the UPDATE with `max_hp = current_hp`
ResetRowHpSwapped(row) ==
    [row EXCEPT !.forest_fights = MAX_DAILY_FOREST_FIGHTS,
                !.alive = TRUE,
                !.max_hp = row.current_hp]

\* UPDATE players SET forest_fights = $1, alive = TRUE, current_hp = max_hp
ResetRow(row) ==
    [row EXCEPT !.forest_fights = MAX_DAILY_FOREST_FIGHTS,
                !.alive = TRUE,
                !.current_hp = row.max_hp]

\* a faulty variant: the query without `alive = true`
ListOtherPlayers(rows, exclude_id) ==
    {i \in DOMAIN rows : i # exclude_id}

\* SELECT id, name, level FROM players WHERE alive = true AND id != $1
ListAlivePlayers(rows, exclude_id) ==
    {i \in DOMAIN rows : rows[i].alive /\ i # exclude_id}

NewsKinds == {"reset", "kill", "death", "duel", "levelup", "marriage"}

\* INSERT INTO news ..: the log keeps how many events of each kind it holds
LogEvent(log, kind) ==
    IF kind \in NewsKinds THEN [log EXCEPT ![kind] = @ + 1] ELSE log

(***************************************************************************)
(* State                                                                   *)
(***************************************************************************)
VARIABLES
    db,        \* players table: id -> row
    marker,    \* game_state['last_reset'], NoMarker when the row is absent
    news,      \* news table: kind -> number of events
    today,     \* the calendar day Local::now() reports
    pc,        \* where each process is
    mem,       \* the Player struct a session holds
    monster,   \* the monster of the encounter in progress
    sel,       \* the id of the opponent picked from the list
    target,    \* the target struct a duel loaded
    rtoday,    \* daily_reset: its `today`
    rlast,     \* daily_reset: the last_reset it read
    acts,      \* menu choices made so far
    fights,    \* forest encounters started so far
    rounds,    \* rounds fought in the battle or duel in progress
    runs,      \* runs of main started so far
    pending,   \* log_event tasks spawned and not yet run
    \* history, for stating properties only
    applied,   \* date string -> effective resets committed for it
    duelLog,   \* the concluded duels, in order: [challenger, target]
    rowDuels,  \* id -> duels whose outcome the persisted row holds
    memDuels,  \* p  -> duels whose outcome the session's struct holds
    tgtDuels,  \* p  -> duels whose outcome the loaded target struct holds
    memApplied, \* p -> `applied` as it was when the session's struct was loaded
    tgtApplied, \* p -> `applied` as it was when the target struct was loaded
    resolved,  \* id -> forest encounters ended since the last effective reset
    lost,      \* kind -> appends to the news that failed
    lastCall,  \* the last menu operation entered: [proc, op]
    panicked,  \* p  -> a run of the process ended in a panic
    name_input \* the name typed at main's prompt

vars == <<db, marker, news, today, pc, mem, monster, sel, target, rtoday, rlast,
          acts, fights, rounds, runs, pending, applied, duelLog, rowDuels, memDuels, tgtDuels,
          memApplied, tgtApplied, resolved, lost, lastCall, panicked, name_input>>

store == <<db, marker, news>>
hists == <<applied, duelLog, rowDuels, memDuels, tgtDuels, memApplied, tgtApplied,
           resolved>>
aside == <<lost, lastCall, panicked, name_input>>
NoCall == [proc |-> 0, op |-> ""]


DateStrings == {FormatDate(d) : d \in Days}
NoneApplied == [s \in DateStrings |-> 0]

\* the encounters each row has behind it since the reset that filled its budget
FightsUsed(rows) ==
    [i \in DOMAIN rows |-> MAX_DAILY_FOREST_FIGHTS - rows[i].forest_fights]
SpawnKinds == {"levelup", "marriage"}
NoPending == [k \in SpawnKinds |-> 0]

(***************************************************************************)
(* The store a run of main may find: rows that earlier sessions left.      *)
(***************************************************************************)
Worn(i) == [NewPlayer(i) EXCEPT !.exp = 95, !.gold = 11, !.current_hp = 3,
                                !.forest_fights = 1]
Slain(i) == [NewPlayer(i) EXCEPT !.gold = 50, !.current_hp = 0, !.alive = FALSE,
                                 !.forest_fights = 4]
Spent(i) == [Worn(i) EXCEPT !.forest_fights = 0]
InitRows(i) == IF i = 1 THEN {Worn(i)} ELSE {Worn(i), Spent(i), Slain(i)}

Init ==
    /\ db \in {f \in [PlayerIds -> UNION {InitRows(i) : i \in PlayerIds}] :
                  \A i \in PlayerIds : f[i] \in InitRows(i)}
    /\ today = 10
    /\ marker \in {FormatDate(9), FormatDate(10)}
    /\ news = [k \in NewsKinds |-> 0]
    /\ pc = [p \in PlayerIds |-> "off"]
    /\ mem = [p \in PlayerIds |-> NoPlayer]
    /\ monster = [p \in PlayerIds |-> NoMonster]
    /\ sel = [p \in PlayerIds |-> 0]
    /\ target = [p \in PlayerIds |-> NoPlayer]
    /\ rtoday = [p \in PlayerIds |-> NoMarker]
    /\ rlast = [p \in PlayerIds |-> NoMarker]
    /\ acts = 0
    /\ fights = 0
    /\ rounds = [p \in PlayerIds |-> 0]
    /\ runs = 0
    /\ pending = [p \in PlayerIds |-> NoPending]
    /\ applied = [s \in DateStrings |-> 0]
    /\ duelLog = <<>>
    /\ rowDuels = [i \in PlayerIds |-> {}]
    /\ memDuels = [p \in PlayerIds |-> {}]
    /\ tgtDuels = [p \in PlayerIds |-> {}]
    /\ memApplied = [p \in PlayerIds |-> NoneApplied]
    /\ tgtApplied = [p \in PlayerIds |-> NoneApplied]
    /\ resolved = FightsUsed(db)
    /\ lost = [k \in NewsKinds |-> 0]
    /\ lastCall = NoCall
    /\ panicked = [p \in PlayerIds |-> FALSE]
    /\ name_input = [p \in PlayerIds |-> ""]

(***************************************************************************)
(* The process ends (main returns, panics or is killed): what it held in   *)
(* memory is gone, spawned tasks that have not run are dropped.            *)
(***************************************************************************)
ProcessEnds(p) ==
    /\ pc' = [pc EXCEPT ![p] = "off"]
    /\ mem' = [mem EXCEPT ![p] = NoPlayer]
    /\ monster' = [monster EXCEPT ![p] = NoMonster]
    /\ sel' = [sel EXCEPT ![p] = 0]
    /\ target' = [target EXCEPT ![p] = NoPlayer]
    /\ rtoday' = [rtoday EXCEPT ![p] = NoMarker]
    /\ rlast' = [rlast EXCEPT ![p] = NoMarker]
    /\ rounds' = [rounds EXCEPT ![p] = 0]
    /\ pending' = [pending EXCEPT ![p] = NoPending]
    /\ memDuels' = [memDuels EXCEPT ![p] = {}]
    /\ tgtDuels' = [tgtDuels EXCEPT ![p] = {}]
    /\ memApplied' = [memApplied EXCEPT ![p] = NoneApplied]
    /\ tgtApplied' = [tgtApplied EXCEPT ![p] = NoneApplied]

\* where main_menu's `while player.alive` goes next
MenuOrSave(p) == IF p.alive THEN "menu" ELSE "save"

(***************************************************************************)
(* main: init_db_pool                                                      *)
(***************************************************************************)
Start(p) ==
    /\ pc[p] = "off"
    /\ runs < MaxRuns
    /\ runs' = runs + 1
    \* INSERT .. ('last_reset', today) ON CONFLICT (key) DO NOTHING
    /\ marker' = IF marker = NoMarker THEN FormatDate(today) ELSE marker
    /\ pc' = [pc EXCEPT ![p] = "reset"]
    /\ UNCHANGED <<db, news, today, mem, monster, sel, target, rtoday, rlast,
                   acts, fights, rounds, pending, hists, aside>>

(***************************************************************************)
(* daily_reset: the transaction begins and reads the marker ...            *)
(***************************************************************************)
ResetRead(p) ==
    /\ pc[p] = "reset"
    /\ \/ /\ rtoday' = [rtoday EXCEPT ![p] = FormatDate(today)]
          /\ rlast' = [rlast EXCEPT ![p] = marker]
          /\ pc' = [pc EXCEPT ![p] = "resetw"]
          /\ UNCHANGED <<mem, monster, sel, target, rounds, pending, memDuels, tgtDuels,
                         memApplied, tgtApplied, panicked>>
       \/ /\ ProcessEnds(p)     \* the statement fails: main's expect panics
          /\ panicked' = [panicked EXCEPT ![p] = TRUE]
    /\ UNCHANGED <<store, today, acts, fights, runs, applied, duelLog, rowDuels,
                   resolved, lost, lastCall, name_input>>

(***************************************************************************)
(* ... and, the marker it read being older than its today, updates every   *)
(* row, logs the reset and upserts the marker; then commits.  The writes   *)
(* of a transaction become visible together, at its commit.                *)
(***************************************************************************)
ResetCommit(p) ==
    /\ pc[p] = "resetw"
    /\ \/ /\ IF ResetDue(rlast[p], rtoday[p])
             THEN /\ db' = [i \in PlayerIds |-> ResetRow(db[i])]
                  /\ news' = LogEvent(news, "reset")
                  /\ marker' = rtoday[p]
                  /\ applied' = [applied EXCEPT ![rtoday[p]] = @ + 1]
                  /\ resolved' = [i \in DOMAIN resolved |-> 0]
             ELSE UNCHANGED <<db, news, marker, applied, resolved>>
          /\ pc' = [pc EXCEPT ![p] = "login"]
          /\ UNCHANGED <<mem, monster, sel, target, rtoday, rlast, rounds, pending,
                         memDuels, tgtDuels, memApplied, tgtApplied, lost, panicked>>
       \/ /\ ProcessEnds(p)  \* a statement or the commit fails: rolled back, panic
          /\ UNCHANGED <<db, news, marker, applied, resolved>>
          /\ panicked' = [panicked EXCEPT ![p] = TRUE]
          /\ \/ UNCHANGED lost                      \* the UPDATE, the upsert or the commit
             \/ /\ ResetDue(rlast[p], rtoday[p])    \* the INSERT INTO news
                /\ lost' = [lost EXCEPT !["reset"] = @ + 1]
    /\ UNCHANGED <<today, acts, fights, runs, duelLog, rowDuels, lastCall, name_input>>

(***************************************************************************)
(* main: get_player_by_name, then main_menu                                *)
(***************************************************************************)
Login(p) ==
    /\ pc[p] = "login"
    /\ mem' = [mem EXCEPT ![p] = db[p]]
    /\ memDuels' = [memDuels EXCEPT ![p] = rowDuels[p]]
    /\ memApplied' = [memApplied EXCEPT ![p] = applied]
    /\ pc' = [pc EXCEPT ![p] = MenuOrSave(db[p])]
    /\ UNCHANGED <<store, today, monster, sel, target, rtoday, rlast, acts, fights, rounds, runs,
                   pending, applied, duelLog, rowDuels, tgtDuels, tgtApplied, resolved, aside>>

\* "7": Save and Quit
Quit(p) ==
    /\ pc[p] = "menu"
    /\ pc' = [pc EXCEPT ![p] = "save"]
    /\ UNCHANGED <<store, today, mem, monster, sel, target, rtoday, rlast, acts, fights, rounds,
                   runs, pending, hists, aside>>

\* a faulty variant: the UPDATE without `WHERE id = $12`
SaveEveryRow(p) ==
    /\ pc[p] = "save"
    /\ \/ /\ db' = [i \in PlayerIds |-> UpdateRow(db[i], mem[p])]
          /\ rowDuels' = [rowDuels EXCEPT ![p] = memDuels[p]]
          /\ UNCHANGED panicked
       \/ /\ UNCHANGED <<db, rowDuels>>
          /\ panicked' = [panicked EXCEPT ![p] = TRUE]
    /\ ProcessEnds(p)
    /\ UNCHANGED <<marker, news, today, acts, fights, runs, applied, duelLog,
                   resolved, lost, lastCall, name_input>>

\* main: update_player after main_menu returns
Save(p) ==
    /\ pc[p] = "save"
    /\ \/ /\ db' = [db EXCEPT ![p] = UpdateRow(@, mem[p])]
          /\ rowDuels' = [rowDuels EXCEPT ![p] = memDuels[p]]
          /\ UNCHANGED panicked
       \/ /\ UNCHANGED <<db, rowDuels>>   \* the update fails: main's expect panics
          /\ panicked' = [panicked EXCEPT ![p] = TRUE]
    /\ ProcessEnds(p)
    /\ UNCHANGED <<marker, news, today, acts, fights, runs, applied, duelLog,
                   resolved, lost, lastCall, name_input>>

\* the process is killed
Crash(p) ==
    /\ pc[p] # "off"
    /\ ProcessEnds(p)
    /\ UNCHANGED <<store, today, acts, fights, runs, applied, duelLog, rowDuels, resolved,
                   aside>>

\* a task spawned by try_level_up or flirt_with_violet runs log_event(..).ok()
SpawnedLog(p) ==
    \E k \in SpawnKinds :
        /\ pending[p][k] > 0
        /\ pending' = [pending EXCEPT ![p][k] = @ - 1]
        /\ \/ news' = LogEvent(news, k) /\ UNCHANGED lost
           \/ UNCHANGED news /\ lost' = [lost EXCEPT ![k] = @ + 1]
        /\ UNCHANGED <<db, marker, today, pc, mem, monster, sel, target, rtoday,
                       rlast, acts, fights, rounds, runs, hists, lastCall, panicked,
                       name_input>>

NewDay ==
    /\ today + 1 \in Days
    /\ today' = today + 1
    /\ UNCHANGED <<store, pc, mem, monster, sel, target, rtoday, rlast, acts, fights, rounds, runs,
                   pending, hists, aside>>

(***************************************************************************)
(* explore_forest                                                          *)
(***************************************************************************)
\* "1": the guard on forest_fights, before the loop of encounters
ExploreForest(p) ==
    /\ pc[p] = "menu"
    /\ acts < MaxActs
    /\ fights < MaxFights
    /\ acts' = acts + 1
    /\ lastCall' = [proc |-> p, op |-> "explore_forest"]
    /\ pc' = [pc EXCEPT ![p] = IF NoFightsLeft(mem[p]) THEN "menu" ELSE "forest"]
    /\ UNCHANGED <<store, today, mem, monster, sel, target, rtoday, rlast, fights,
                   rounds, runs, pending, hists, lost, panicked, name_input>>

\* the head of `while player.forest_fights > 0 && player.alive`
Encounter(p) ==
    /\ pc[p] = "forest"
    /\ IF CanFight(mem[p])
       THEN /\ \E m \in GenerateMonster(mem[p].level) :
                   monster' = [monster EXCEPT ![p] = m]
            /\ fights' = fights + 1
            /\ pc' = [pc EXCEPT ![p] = "battle"]
       ELSE /\ pc' = [pc EXCEPT ![p] = MenuOrSave(mem[p])]
            /\ UNCHANGED <<monster, fights>>
    /\ UNCHANGED <<store, today, mem, sel, target, rtoday, rlast, acts, rounds, runs,
                   pending, hists, aside>>

\* one iteration of `while player.alive && monster.hp > 0`
Fight(p) ==
    /\ pc[p] = "battle"
    /\ mem[p].alive /\ monster[p].hp > 0
    /\ rounds[p] < MaxRounds
    /\ rounds' = [rounds EXCEPT ![p] = @ + 1]
    /\ \E dm \in Draws(1, mem[p].attack), dp \in Draws(1, monster[p].attack) :
         LET r == ForestRound(mem[p], monster[p], dm, dp) IN
           /\ mem' = [mem EXCEPT ![p] = r.player]
           /\ monster' = [monster EXCEPT ![p] = r.monster]
           /\ pending' = [pending EXCEPT ![p]["levelup"] = @ + r.spawns]
           /\ \/ news' = LogEvent(news, r.event) /\ UNCHANGED lost
              \/ /\ r.event # "none"                   \* log_event fails
                 /\ UNCHANGED news
                 /\ lost' = [lost EXCEPT ![r.event] = @ + 1]
    /\ UNCHANGED <<db, marker, today, pc, sel, target, rtoday, rlast, acts, fights, runs,
                   hists, lastCall, panicked, name_input>>

\* after the battle loop: the fight is spent; leave, or go round again
EndEncounter(p) ==
    /\ pc[p] = "battle"
    /\ ~(mem[p].alive /\ monster[p].hp > 0)
    /\ mem' = [mem EXCEPT ![p] = SpendFight(@)]
    /\ monster' = [monster EXCEPT ![p] = NoMonster]
    /\ rounds' = [rounds EXCEPT ![p] = 0]
    /\ IF ~mem[p].alive
       THEN pc' = [pc EXCEPT ![p] = "save"]
       ELSE IF mem[p].forest_fights - 1 > 0
       THEN \/ /\ fights < MaxFights
               /\ pc' = [pc EXCEPT ![p] = "forest"]       \* fight another
            \/ pc' = [pc EXCEPT ![p] = "menu"]            \* "N"
       ELSE pc' = [pc EXCEPT ![p] = "menu"]
    /\ resolved' = [resolved EXCEPT ![mem[p].id] = @ + 1]
    /\ UNCHANGED <<store, today, sel, target, rtoday, rlast, acts, fights, runs,
                   pending, applied, duelLog, rowDuels, memDuels, tgtDuels, memApplied,
                   tgtApplied, aside>>

(***************************************************************************)
(* visit_tavern                                                            *)
(***************************************************************************)
\* to_lowercase / LOWER(..) on the strings that occur
ToLower(s) ==
    CASE s \in {"Violet", "violet"} -> "violet"
      [] s \in {"Ann", "ann", "ANN"} -> "ann"
      [] s \in {"Bob", "bob"} -> "bob"
      [] OTHER -> s

\* a faulty variant: the drink is sold to any purse that is not empty
DrinkOnCredit(p) ==
    IF p.gold <= 0 THEN p
    ELSE LET heal_amount == Max(p.max_hp \div 4, 1)
             p1 == [p EXCEPT !.gold = @ - DRINK_PRICE,
                             !.current_hp = Min(@ + heal_amount, p.max_hp)]
             bonus_heal == Max(p.max_hp \div 8, 1)
         IN IF ToLower(p.spouse) = "violet"
            THEN [p1 EXCEPT !.current_hp = Min(@ + bonus_heal, p.max_hp)]
            ELSE p1

\* "2": buy a drink
DrinkEffect(p) ==
    IF p.gold < DRINK_PRICE THEN p
    ELSE LET heal_amount == Max(p.max_hp \div 4, 1)
             p1 == [p EXCEPT !.gold = @ - DRINK_PRICE,
                             !.current_hp = Min(@ + heal_amount, p.max_hp)]
             bonus_heal == Max(p.max_hp \div 8, 1)
         IN IF ToLower(p.spouse) = "violet"
            THEN [p1 EXCEPT !.current_hp = Min(@ + bonus_heal, p.max_hp)]
            ELSE p1

Drink(p) ==
    /\ pc[p] = "menu"
    /\ acts < MaxActs
    /\ acts' = acts + 1
    /\ lastCall' = [proc |-> p, op |-> "drink"]
    /\ mem' = [mem EXCEPT ![p] = DrinkEffect(@)]
    /\ UNCHANGED <<store, today, pc, monster, sel, target, rtoday, rlast, fights, rounds,
                   runs, pending, hists, lost, panicked, name_input>>

\* a faulty variant: no early return for the married
FlirtEffectInsatiable(p) ==
    LET p1 == [p EXCEPT !.romance = @ + 1] IN
    IF p1.romance >= MARRIAGE_ROMANCE THEN [p1 EXCEPT !.spouse = "Violet"]
    ELSE p1

\* "1": flirt_with_violet
FlirtEffect(p) ==
    IF ToLower(p.spouse) = "violet" THEN p
    ELSE LET p1 == [p EXCEPT !.romance = @ + 1] IN
         IF p1.romance >= MARRIAGE_ROMANCE THEN [p1 EXCEPT !.spouse = "Violet"]
         ELSE p1

FlirtSpawns(p) ==
    IF ToLower(p.spouse) # "violet" /\ p.romance + 1 >= MARRIAGE_ROMANCE THEN 1 ELSE 0

Flirt(p) ==
    /\ pc[p] = "menu"
    /\ acts < MaxActs
    /\ acts' = acts + 1
    /\ mem' = [mem EXCEPT ![p] = FlirtEffect(@)]
    /\ lastCall' = [proc |-> p, op |-> "flirt_with_violet"]
    /\ pending' = [pending EXCEPT ![p]["marriage"] = @ + FlirtSpawns(mem[p])]
    /\ UNCHANGED <<store, today, pc, monster, sel, target, rtoday, rlast, fights, rounds,
                   runs, hists, lost, panicked, name_input>>

(***************************************************************************)
(* challenge_player                                                        *)
(***************************************************************************)
\* "3": list the opponents and read the choice
Challenge(p) ==
    /\ pc[p] = "menu"
    /\ acts < MaxActs
    /\ acts' = acts + 1
    /\ \/ \E t \in ListAlivePlayers(db, mem[p].id) :
             /\ sel' = [sel EXCEPT ![p] = t]
             /\ pc' = [pc EXCEPT ![p] = "duelload"]
       \/ UNCHANGED <<sel, pc>>   \* the query fails, no opponent, cancel, bad input
    /\ lastCall' = [proc |-> p, op |-> "challenge_player"]
    /\ UNCHANGED <<store, today, mem, monster, target, rtoday, rlast, fights, rounds,
                   runs, pending, hists, lost, panicked, name_input>>

\* get_player_by_id of the chosen opponent
DuelLoad(p) ==
    /\ pc[p] = "duelload"
    /\ sel' = [sel EXCEPT ![p] = 0]
    /\ \/ /\ db[sel[p]].alive
          /\ target' = [target EXCEPT ![p] = db[sel[p]]]
          /\ tgtDuels' = [tgtDuels EXCEPT ![p] = rowDuels[sel[p]]]
          /\ tgtApplied' = [tgtApplied EXCEPT ![p] = applied]
          /\ pc' = [pc EXCEPT ![p] = "duel"]
       \/ /\ pc' = [pc EXCEPT ![p] = "menu"]      \* not alive any more, or the query fails
          /\ UNCHANGED <<target, tgtDuels, tgtApplied>>
    /\ UNCHANGED <<store, today, mem, monster, rtoday, rlast, acts, fights, rounds, runs, pending,
                   applied, duelLog, rowDuels, memDuels, memApplied, resolved, aside>>

\* one iteration of `while player.alive && target.alive`
DuelFight(p) ==
    /\ pc[p] = "duel"
    /\ mem[p].alive /\ target[p].alive
    /\ rounds[p] < MaxRounds
    /\ rounds' = [rounds EXCEPT ![p] = @ + 1]
    /\ \E dt \in Draws(1, mem[p].attack), dp \in Draws(1, target[p].attack) :
         LET r == DuelRound(mem[p], target[p], dt, dp) IN
           /\ mem' = [mem EXCEPT ![p] = r.player]
           /\ target' = [target EXCEPT ![p] = r.target]
           /\ pending' = [pending EXCEPT ![p]["levelup"] = @ + r.spawns]
           /\ \/ news' = LogEvent(news, r.event) /\ UNCHANGED lost
              \/ /\ r.event # "none"                   \* log_event fails
                 /\ UNCHANGED news
                 /\ lost' = [lost EXCEPT ![r.event] = @ + 1]
           /\ IF r.event = "duel"
              THEN /\ duelLog' = Append(duelLog, [challenger |-> mem[p].id,
                                                  target |-> target[p].id])
                   /\ memDuels' = [memDuels EXCEPT ![p] = @ \cup {Len(duelLog) + 1}]
                   /\ tgtDuels' = [tgtDuels EXCEPT ![p] = @ \cup {Len(duelLog) + 1}]
              ELSE UNCHANGED <<duelLog, memDuels, tgtDuels>>
    /\ UNCHANGED <<db, marker, today, pc, monster, sel, rtoday, rlast, acts, fights, runs,
                   applied, rowDuels, memApplied, tgtApplied, resolved, lastCall, panicked,
                   name_input>>

\* the transaction that updates both rows
DuelSettle(p) ==
    /\ pc[p] = "duel"
    /\ ~(mem[p].alive /\ target[p].alive)
    /\ \/ /\ db' = [db EXCEPT ![mem[p].id] = UpdateRow(@, mem[p]),
                              ![target[p].id] = UpdateRow(@, target[p])]
          /\ rowDuels' = [rowDuels EXCEPT ![mem[p].id] = memDuels[p],
                                          ![target[p].id] = tgtDuels[p]]
       \/ UNCHANGED <<db, rowDuels>>     \* it fails and is rolled back
    /\ target' = [target EXCEPT ![p] = NoPlayer]
    /\ tgtDuels' = [tgtDuels EXCEPT ![p] = {}]
    /\ tgtApplied' = [tgtApplied EXCEPT ![p] = NoneApplied]
    /\ rounds' = [rounds EXCEPT ![p] = 0]
    /\ pc' = [pc EXCEPT ![p] = MenuOrSave(mem[p])]
    /\ UNCHANGED <<marker, news, today, mem, monster, sel, rtoday, rlast, acts, fights, runs,
                   pending, applied, duelLog, memDuels, memApplied, resolved, aside>>

(***************************************************************************)
(* The system                                                              *)
(***************************************************************************)
Next ==
    \/ NewDay
    \/ \E p \in PlayerIds :
         \/ Start(p)
         \/ ResetRead(p)
         \/ ResetCommit(p)
         \/ Login(p)
         \/ ExploreForest(p)
         \/ Encounter(p)
         \/ Fight(p)
         \/ EndEncounter(p)
         \/ Drink(p)
         \/ Flirt(p)
         \/ Challenge(p)
         \/ DuelLoad(p)
         \/ DuelFight(p)
         \/ DuelSettle(p)
         \/ Quit(p)
         \/ Save(p)
         \/ Crash(p)
         \/ SpawnedLog(p)

Spec == Init /\ [][Next]_vars

(***************************************************************************)
(* The leveling policy on its own: try_level_up is called once on a player *)
(* of each level and experience within the bounds.                         *)
(***************************************************************************)
\* a wounded player with the statistics of its level
PlayerAt(i, level, exp) ==
    [NewPlayer(i) EXCEPT !.level = level, !.exp = exp,
                         !.max_hp = 20 + 10 * (level - 1),
                         !.current_hp = 3,
                         !.attack = 5 + 2 * (level - 1),
                         !.defense = 2 + (level - 1)]

LevelInit ==
    /\ db = [i \in PlayerIds |-> Worn(i)]
    /\ today = 10
    /\ marker = FormatDate(10)
    /\ news = [k \in NewsKinds |-> 0]
    /\ \E level \in 1 .. MaxLevelIn, exp \in 0 .. MaxExpIn :
          mem = [p \in PlayerIds |-> IF p = 1 THEN PlayerAt(p, level, exp) ELSE NoPlayer]
    /\ pc = [p \in PlayerIds |-> IF p = 1 THEN "levelin" ELSE "off"]
    /\ monster = [p \in PlayerIds |-> NoMonster]
    /\ sel = [p \in PlayerIds |-> 0]
    /\ target = [p \in PlayerIds |-> NoPlayer]
    /\ rtoday = [p \in PlayerIds |-> NoMarker]
    /\ rlast = [p \in PlayerIds |-> NoMarker]
    /\ acts = 0
    /\ fights = 0
    /\ rounds = [p \in PlayerIds |-> 0]
    /\ runs = 0
    /\ pending = [p \in PlayerIds |-> NoPending]
    /\ applied = [s \in DateStrings |-> 0]
    /\ duelLog = <<>>
    /\ rowDuels = [i \in PlayerIds |-> {}]
    /\ memDuels = [p \in PlayerIds |-> {}]
    /\ tgtDuels = [p \in PlayerIds |-> {}]
    /\ memApplied = [p \in PlayerIds |-> NoneApplied]
    /\ tgtApplied = [p \in PlayerIds |-> NoneApplied]
    /\ resolved = FightsUsed(db)
    /\ lost = [k \in NewsKinds |-> 0]
    /\ lastCall = NoCall
    /\ panicked = [p \in PlayerIds |-> FALSE]
    /\ name_input = [p \in PlayerIds |-> ""]

\* try_level_up(player, conn)
LevelCall(p) ==
    /\ pc[p] = "levelin"
    /\ mem' = [mem EXCEPT ![p] = TryLevelUp(@)]
    /\ pending' = [pending EXCEPT ![p]["levelup"] = @ + LevelUpSpawns(mem[p])]
    /\ pc' = [pc EXCEPT ![p] = "levelout"]
    /\ UNCHANGED <<store, today, monster, sel, target, rtoday, rlast, acts, fights,
                   rounds, runs, hists, aside>>

LevelNext == \E p \in PlayerIds : LevelCall(p)

LevelSpec == LevelInit /\ [][LevelNext]_vars

(***************************************************************************)
(* Combat on its own: sessions of wounded players on a day whose reset is  *)
(* done, left to run: no process is killed, and a battle or duel loop      *)
(* that can take a step takes it (the loops wait for no input).            *)
(***************************************************************************)
CombatInit ==
    /\ Init
    /\ marker = FormatDate(today)
    /\ \A i \in PlayerIds : db[i] = Worn(i)

CombatNext ==
    \E p \in PlayerIds :
        \/ Start(p)
        \/ ResetRead(p)
        \/ ResetCommit(p)
        \/ Login(p)
        \/ ExploreForest(p)
        \/ Encounter(p)
        \/ Fight(p)
        \/ EndEncounter(p)
        \/ Challenge(p)
        \/ DuelLoad(p)
        \/ DuelFight(p)
        \/ DuelSettle(p)
        \/ Quit(p)
        \/ Save(p)

CombatSpec ==
    /\ CombatInit
    /\ [][CombatNext]_vars
    /\ \A p \in PlayerIds :
          /\ WF_vars(Fight(p))
          /\ WF_vars(EndEncounter(p))
          /\ WF_vars(DuelFight(p))
          /\ WF_vars(DuelSettle(p))

(***************************************************************************)
(* Two sessions side by side: the sessions of two wounded players on a day *)
(* whose reset is done, with room for MaxRaceActs menu choices, so that    *)
(* one session can act between the moment the other loads a record and the *)
(* moment it writes it back.  The counter of menu choices starts below 0   *)
(* by the difference of the two bounds; the guards of the menu choices are *)
(* the ones of Spec.                                                       *)
(***************************************************************************)
RaceInit ==
    /\ db = [i \in PlayerIds |-> Worn(i)]
    /\ today = 10
    /\ marker = FormatDate(10)
    /\ news = [k \in NewsKinds |-> 0]
    /\ pc = [p \in PlayerIds |-> "off"]
    /\ mem = [p \in PlayerIds |-> NoPlayer]
    /\ monster = [p \in PlayerIds |-> NoMonster]
    /\ sel = [p \in PlayerIds |-> 0]
    /\ target = [p \in PlayerIds |-> NoPlayer]
    /\ rtoday = [p \in PlayerIds |-> NoMarker]
    /\ rlast = [p \in PlayerIds |-> NoMarker]
    /\ acts = MaxActs - MaxRaceActs
    /\ fights = 0
    /\ rounds = [p \in PlayerIds |-> 0]
    /\ runs = 0
    /\ pending = [p \in PlayerIds |-> NoPending]
    /\ applied = [s \in DateStrings |-> 0]
    /\ duelLog = <<>>
    /\ rowDuels = [i \in PlayerIds |-> {}]
    /\ memDuels = [p \in PlayerIds |-> {}]
    /\ tgtDuels = [p \in PlayerIds |-> {}]
    /\ memApplied = [p \in PlayerIds |-> NoneApplied]
    /\ tgtApplied = [p \in PlayerIds |-> NoneApplied]
    /\ resolved = FightsUsed(db)
    /\ lost = [k \in NewsKinds |-> 0]
    /\ lastCall = NoCall
    /\ panicked = [p \in PlayerIds |-> FALSE]
    /\ name_input = [p \in PlayerIds |-> ""]

RaceSpec == RaceInit /\ [][CombatNext]_vars

(***************************************************************************)
(* The forest-fight budget over several sessions: as RaceSpec, with room   *)
(* for MaxRaceActs forest encounters as well, so that a player whose       *)
(* session ended can meet a monster again in the next one.                 *)
(***************************************************************************)
BudgetInit ==
    /\ db = [i \in PlayerIds |-> Worn(i)]
    /\ today = 10
    /\ marker = FormatDate(10)
    /\ news = [k \in NewsKinds |-> 0]
    /\ pc = [p \in PlayerIds |-> "off"]
    /\ mem = [p \in PlayerIds |-> NoPlayer]
    /\ monster = [p \in PlayerIds |-> NoMonster]
    /\ sel = [p \in PlayerIds |-> 0]
    /\ target = [p \in PlayerIds |-> NoPlayer]
    /\ rtoday = [p \in PlayerIds |-> NoMarker]
    /\ rlast = [p \in PlayerIds |-> NoMarker]
    /\ acts = MaxActs - MaxRaceActs
    /\ fights = MaxFights - MaxRaceActs
    /\ rounds = [p \in PlayerIds |-> 0]
    /\ runs = 0
    /\ pending = [p \in PlayerIds |-> NoPending]
    /\ applied = [s \in DateStrings |-> 0]
    /\ duelLog = <<>>
    /\ rowDuels = [i \in PlayerIds |-> {}]
    /\ memDuels = [p \in PlayerIds |-> {}]
    /\ tgtDuels = [p \in PlayerIds |-> {}]
    /\ memApplied = [p \in PlayerIds |-> NoneApplied]
    /\ tgtApplied = [p \in PlayerIds |-> NoneApplied]
    /\ resolved = FightsUsed(db)
    /\ lost = [k \in NewsKinds |-> 0]
    /\ lastCall = NoCall
    /\ panicked = [p \in PlayerIds |-> FALSE]
    /\ name_input = [p \in PlayerIds |-> ""]

BudgetSpec == BudgetInit /\ [][CombatNext]_vars

(***************************************************************************)
(* The courtship of Violet: two new players, each in a session at the      *)
(* menu, with room for MaxFlirts flirts in all; the spawned log tasks run  *)
(* meanwhile.                                                              *)
(***************************************************************************)
FlirtInit ==
    /\ db = [i \in PlayerIds |-> NewPlayer(i)]
    /\ today = 10
    /\ marker = FormatDate(10)
    /\ news = [k \in NewsKinds |-> 0]
    /\ pc = [p \in PlayerIds |-> "menu"]
    /\ mem = [p \in PlayerIds |-> NewPlayer(p)]
    /\ monster = [p \in PlayerIds |-> NoMonster]
    /\ sel = [p \in PlayerIds |-> 0]
    /\ target = [p \in PlayerIds |-> NoPlayer]
    /\ rtoday = [p \in PlayerIds |-> NoMarker]
    /\ rlast = [p \in PlayerIds |-> NoMarker]
    /\ acts = MaxActs - MaxFlirts
    /\ fights = 0
    /\ rounds = [p \in PlayerIds |-> 0]
    /\ runs = MaxRuns
    /\ pending = [p \in PlayerIds |-> NoPending]
    /\ applied = [s \in DateStrings |-> 0]
    /\ duelLog = <<>>
    /\ rowDuels = [i \in PlayerIds |-> {}]
    /\ memDuels = [p \in PlayerIds |-> {}]
    /\ tgtDuels = [p \in PlayerIds |-> {}]
    /\ memApplied = [p \in PlayerIds |-> NoneApplied]
    /\ tgtApplied = [p \in PlayerIds |-> NoneApplied]
    /\ resolved = FightsUsed(db)
    /\ lost = [k \in NewsKinds |-> 0]
    /\ lastCall = NoCall
    /\ panicked = [p \in PlayerIds |-> FALSE]
    /\ name_input = [p \in PlayerIds |-> ""]

FlirtNext ==
    \E p \in PlayerIds :
        \/ Flirt(p)
        \/ SpawnedLog(p)

FlirtSpec == FlirtInit /\ [][FlirtNext]_vars

(***************************************************************************)
(* Combat on given combatants: one session, taken at the head of the       *)
(* encounter loop, in a battle in progress, at the start of a duel or at   *)
(* the tavern, with a player of each level, experience, health and purse   *)
(* of a small range; a battle in progress is against a monster generated   *)
(* for the player's level that earlier rounds have worn down.              *)
(***************************************************************************)
Fighter(i, level, exp, hp, gold) ==
    [PlayerAt(i, level, exp) EXCEPT !.current_hp = hp, !.gold = gold]

Fighters(i) ==
    {Fighter(i, level, exp, hp, gold) :
        level \in 1 .. MaxFighterLevel, exp \in {0, 95}, hp \in {1, 3},
        gold \in {0, 1, DRINK_PRICE, 11}}

WoundedMonsters(player_level) ==
    {[m EXCEPT !.hp = h] : m \in GenerateMonster(player_level), h \in {1, 3}}

ArenaPlaces == {"forest", "battle", "duel", "menu"}

ArenaInit ==
    /\ \E place \in ArenaPlaces :
        \E a \in Fighters(1) :
        \E b \in IF place = "duel" THEN Fighters(2) ELSE {Worn(2)} :
          /\ db = [i \in PlayerIds |-> IF i = 1 THEN a ELSE b]
          /\ mem = [p \in PlayerIds |-> IF p = 1 THEN a ELSE NoPlayer]
          /\ pc = [p \in PlayerIds |-> IF p = 1 THEN place ELSE "off"]
          /\ target = [p \in PlayerIds |->
                          IF p = 1 /\ place = "duel" THEN b ELSE NoPlayer]
          /\ IF place = "battle"
             THEN \E m \in WoundedMonsters(a.level) :
                     monster = [p \in PlayerIds |-> IF p = 1 THEN m ELSE NoMonster]
             ELSE monster = [p \in PlayerIds |-> NoMonster]
          /\ fights = IF place = "battle" THEN 1 ELSE 0
    /\ today = 10
    /\ marker = FormatDate(10)
    /\ news = [k \in NewsKinds |-> 0]
    /\ sel = [p \in PlayerIds |-> 0]
    /\ rtoday = [p \in PlayerIds |-> NoMarker]
    /\ rlast = [p \in PlayerIds |-> NoMarker]
    /\ acts = 0
    /\ rounds = [p \in PlayerIds |-> 0]
    /\ runs = 1
    /\ pending = [p \in PlayerIds |-> NoPending]
    /\ applied = [s \in DateStrings |-> 0]
    /\ duelLog = <<>>
    /\ rowDuels = [i \in PlayerIds |-> {}]
    /\ memDuels = [p \in PlayerIds |-> {}]
    /\ tgtDuels = [p \in PlayerIds |-> {}]
    /\ memApplied = [p \in PlayerIds |-> NoneApplied]
    /\ tgtApplied = [p \in PlayerIds |-> NoneApplied]
    /\ resolved = FightsUsed(db)
    /\ lost = [k \in NewsKinds |-> 0]
    /\ lastCall = NoCall
    /\ panicked = [p \in PlayerIds |-> FALSE]
    /\ name_input = [p \in PlayerIds |-> ""]

ArenaNext ==
    \E p \in PlayerIds :
        \/ Encounter(p)
        \/ Fight(p)
        \/ EndEncounter(p)
        \/ DuelFight(p)
        \/ DuelSettle(p)
        \/ Drink(p)

ArenaSpec == ArenaInit /\ [][ArenaNext]_vars

(***************************************************************************)
(* Two challengers and a bystander: the sessions of players 1 and 2, with  *)
(* room for MaxRaceActs menu choices as in RaceSpec, in a store that holds *)
(* a third player who has no session; the sessions only duel.              *)
(***************************************************************************)
TrioIds == {1, 2, 3}

TrioInit ==
    /\ db = [i \in TrioIds |-> Worn(i)]
    /\ today = 10
    /\ marker = FormatDate(10)
    /\ news = [k \in NewsKinds |-> 0]
    /\ pc = [p \in PlayerIds |-> "off"]
    /\ mem = [p \in PlayerIds |-> NoPlayer]
    /\ monster = [p \in PlayerIds |-> NoMonster]
    /\ sel = [p \in PlayerIds |-> 0]
    /\ target = [p \in PlayerIds |-> NoPlayer]
    /\ rtoday = [p \in PlayerIds |-> NoMarker]
    /\ rlast = [p \in PlayerIds |-> NoMarker]
    /\ acts = MaxActs - MaxRaceActs
    /\ fights = 0
    /\ rounds = [p \in PlayerIds |-> 0]
    /\ runs = 0
    /\ pending = [p \in PlayerIds |-> NoPending]
    /\ applied = [s \in DateStrings |-> 0]
    /\ duelLog = <<>>
    /\ rowDuels = [i \in TrioIds |-> {}]
    /\ memDuels = [p \in PlayerIds |-> {}]
    /\ tgtDuels = [p \in PlayerIds |-> {}]
    /\ memApplied = [p \in PlayerIds |-> NoneApplied]
    /\ tgtApplied = [p \in PlayerIds |-> NoneApplied]
    /\ resolved = FightsUsed(db)
    /\ lost = [k \in NewsKinds |-> 0]
    /\ lastCall = NoCall
    /\ panicked = [p \in PlayerIds |-> FALSE]
    /\ name_input = [p \in PlayerIds |-> ""]

TrioNext ==
    \E p \in PlayerIds :
        \/ Start(p)
        \/ ResetRead(p)
        \/ ResetCommit(p)
        \/ Login(p)
        \/ Challenge(p)
        \/ DuelLoad(p)
        \/ DuelFight(p)
        \/ DuelSettle(p)
        \/ Quit(p)
        \/ Save(p)

TrioSpec == TrioInit /\ [][TrioNext]_vars

(***************************************************************************)
(* Account creation on its own: runs of main on an empty store, up to the  *)
(* point where the session has its player.                                 *)
(***************************************************************************)
TypedNames == {"Ann", "ann", "ANN", "Bob"}

\* the row create_player inserts for a name
CreatedPlayer(id, name) == [NewPlayer(id) EXCEPT !.name = name]

\* SELECT * FROM players WHERE LOWER(name) = LOWER($1)
GetPlayerByName(rows, name) ==
    {i \in DOMAIN rows : ToLower(rows[i].name) = ToLower(name)}

\* the constraint of the players table: name TEXT UNIQUE
NameTaken(rows, name) == \E i \in DOMAIN rows : rows[i].name = name

CreateInit ==
    /\ db = <<>>
    /\ today = 10
    /\ marker = FormatDate(10)
    /\ news = [k \in NewsKinds |-> 0]
    /\ pc = [p \in PlayerIds |-> "prompt"]
    /\ mem = [p \in PlayerIds |-> NoPlayer]
    /\ monster = [p \in PlayerIds |-> NoMonster]
    /\ sel = [p \in PlayerIds |-> 0]
    /\ target = [p \in PlayerIds |-> NoPlayer]
    /\ rtoday = [p \in PlayerIds |-> NoMarker]
    /\ rlast = [p \in PlayerIds |-> NoMarker]
    /\ acts = 0
    /\ fights = 0
    /\ rounds = [p \in PlayerIds |-> 0]
    /\ runs = 0
    /\ pending = [p \in PlayerIds |-> NoPending]
    /\ applied = [s \in DateStrings |-> 0]
    /\ duelLog = <<>>
    /\ rowDuels = [i \in PlayerIds |-> {}]
    /\ memDuels = [p \in PlayerIds |-> {}]
    /\ tgtDuels = [p \in PlayerIds |-> {}]
    /\ memApplied = [p \in PlayerIds |-> NoneApplied]
    /\ tgtApplied = [p \in PlayerIds |-> NoneApplied]
    /\ resolved = [i \in PlayerIds |-> 0]
    /\ lost = [k \in NewsKinds |-> 0]
    /\ lastCall = NoCall
    /\ panicked = [p \in PlayerIds |-> FALSE]
    /\ name_input = [p \in PlayerIds |-> ""]

\* main: "Enter your name: "
EnterName(p) ==
    /\ pc[p] = "prompt"
    /\ \E name \in TypedNames : name_input' = [name_input EXCEPT ![p] = name]
    /\ pc' = [pc EXCEPT ![p] = "lookup"]
    /\ UNCHANGED <<store, today, mem, monster, sel, target, rtoday, rlast, acts, fights,
                   rounds, runs, pending, hists, lost, lastCall, panicked>>

\* main: match get_player_by_name(..)
LookupName(p) ==
    /\ pc[p] = "lookup"
    /\ IF GetPlayerByName(db, name_input[p]) # {}
       THEN /\ \E i \in GetPlayerByName(db, name_input[p]) :
                   mem' = [mem EXCEPT ![p] = db[i]]
            /\ pc' = [pc EXCEPT ![p] = "session"]
       ELSE /\ pc' = [pc EXCEPT ![p] = "offer"]
            /\ UNCHANGED mem
    /\ UNCHANGED <<store, today, monster, sel, target, rtoday, rlast, acts, fights,
                   rounds, runs, pending, hists, aside>>

\* main: "Would you like to create a new account?" answered Y: create_player
CreatePlayer(p) ==
    /\ pc[p] = "offer"
    /\ IF NameTaken(db, name_input[p])
       THEN /\ pc' = [pc EXCEPT ![p] = "prompt"]     \* the INSERT fails: Err(e)
            /\ UNCHANGED <<db, mem>>
       ELSE \/ /\ db' = Append(db, CreatedPlayer(Len(db) + 1, name_input[p]))
               /\ mem' = [mem EXCEPT ![p] = CreatedPlayer(Len(db) + 1, name_input[p])]
               /\ pc' = [pc EXCEPT ![p] = "session"]
            \/ /\ pc' = [pc EXCEPT ![p] = "prompt"]  \* the INSERT fails: Err(e)
               /\ UNCHANGED <<db, mem>>
    /\ UNCHANGED <<marker, news, today, monster, sel, target, rtoday, rlast, acts, fights,
                   rounds, runs, pending, hists, aside>>

\* .. answered anything else
DeclineCreate(p) ==
    /\ pc[p] = "offer"
    /\ pc' = [pc EXCEPT ![p] = "prompt"]
    /\ UNCHANGED <<store, today, mem, monster, sel, target, rtoday, rlast, acts, fights,
                   rounds, runs, pending, hists, aside>>

\* the session is over and main is run again
RunAgain(p) ==
    /\ pc[p] = "session"
    /\ runs < MaxRuns
    /\ runs' = runs + 1
    /\ mem' = [mem EXCEPT ![p] = NoPlayer]
    /\ name_input' = [name_input EXCEPT ![p] = ""]
    /\ pc' = [pc EXCEPT ![p] = "prompt"]
    /\ UNCHANGED <<store, today, monster, sel, target, rtoday, rlast, acts, fights,
                   rounds, pending, hists, lost, lastCall, panicked>>

CreateNext ==
    \E p \in PlayerIds :
        \/ EnterName(p)
        \/ LookupName(p)
        \/ CreatePlayer(p)
        \/ DeclineCreate(p)
        \/ RunAgain(p)

CreateSpec == CreateInit /\ [][CreateNext]_vars

(***************************************************************************)
(* Properties                                                              *)
(***************************************************************************)
\* The structs a state holds: every persisted row, every loaded session
\* struct and every loaded duel target.
Records ==
    {db[i] : i \in PlayerIds}
      \cup {mem[p] : p \in {q \in PlayerIds : mem[q] # NoPlayer}}
      \cup {target[p] : p \in {q \in PlayerIds : target[q] # NoPlayer}}

\* C1: for every concluded duel, at every later moment the persisted rows
\* hold the duel's outcome for both participants or for neither of them;
\* a failed settlement, a crash or the challenger's end-of-session save
\* never leaves one row with the outcome and the other without it.
DuelAllOrNothing ==
    \A d \in 1 .. Len(duelLog) :
        (d \in rowDuels[duelLog[d].challenger]) <=> (d \in rowDuels[duelLog[d].target])

\* C2: however many processes run daily_reset at once, the reset of one
\* calendar day is applied at most once.
ResetAtMostOncePerDay ==
    \A s \in DateStrings : applied[s] <= 1

\* C3: a daily_reset that finds the marker equal to its own date commits
\* without changing any row, the news or the marker.
ResetIdempotent ==
    [][\A p \in PlayerIds :
          (pc[p] = "resetw" /\ pc'[p] = "login" /\ rlast[p] = rtoday[p])
              => (db' = db /\ news' = news /\ marker' = marker)]_vars

\* a second daily_reset of the day has gone by, after a player that the
\* first one revived died again: the row is still dead
ResetIdempotentWitness ==
    \E p \in PlayerIds :
        /\ pc[p] = "login"
        /\ rlast[p] = rtoday[p]
        /\ applied[rtoday[p]] = 1
        /\ marker = rtoday[p]
        /\ \E i \in PlayerIds : ~db[i].alive /\ db[i].forest_fights = MAX_DAILY_FOREST_FIGHTS - 1

\* C4: the round that concludes a duel moves floor(loser's gold / 2) from
\* the loser to the winner: the loser's gold falls by exactly that much,
\* the winner's rises by exactly that much, and their sum is unchanged.
DuelGoldConserved ==
    [][\A p \in PlayerIds :
          (/\ pc[p] = "duel" /\ pc'[p] = "duel"
           /\ mem[p].alive /\ target[p].alive
           /\ ~(mem'[p].alive /\ target'[p].alive))
          => LET won == mem'[p].alive
                 loser == IF won THEN target[p] ELSE mem[p]
                 winner == IF won THEN mem[p] ELSE target[p]
                 loser_after == IF won THEN target'[p] ELSE mem'[p]
                 winner_after == IF won THEN mem'[p] ELSE target'[p]
             IN /\ loser_after.gold = loser.gold - (loser.gold \div 2)
                /\ winner_after.gold = winner.gold + (loser.gold \div 2)
                /\ winner_after.gold + loser_after.gold = winner.gold + loser.gold]_vars

\* a duel has concluded with a positive, odd-rounded loot: the loser's 11
\* gold became 6 and the winner holds 5 more than its row
DuelGoldConservedWitness ==
    \E p \in PlayerIds :
        /\ pc[p] = "duel"
        /\ ~target[p].alive
        /\ mem[p].alive
        /\ target[p].gold = 6
        /\ mem[p].gold = db[p].gold + 5

\* C5: every player record, new, in memory or persisted, has
\* 0 <= current_hp <= max_hp once a mutation of it is complete.
HpInRange ==
    \A r \in Records \cup {NewPlayer(i) : i \in PlayerIds} :
        0 <= r.current_hp /\ r.current_hp <= r.max_hp

\* a strike larger than the hit points left has killed a player in the
\* forest: the hit points were clamped to 0
HpInRangeWitness ==
    \E p \in PlayerIds :
        /\ pc[p] = "battle"
        /\ mem[p].current_hp = 0
        /\ db[p].current_hp < monster[p].attack
        /\ rounds[p] = 1

\* C6: in every player record, in memory or persisted, alive is true
\* exactly when current_hp > 0.
AliveIffHp ==
    \A r \in Records : r.alive <=> (r.current_hp > 0)

\* a death in a duel has been persisted: the row is dead with 0 hit points
AliveIffHpWitness ==
    \E i \in PlayerIds :
        /\ rowDuels[i] # {}
        /\ ~db[i].alive
        /\ db[i].current_hp = 0

\* C7: after every completed forest encounter and concluded duel, and in
\* every persisted record, 0 <= exp < level * 100.
ExpNormalized ==
    \A r \in Records : 0 <= r.exp /\ r.exp < r.level * 100

\* a reward that crossed the threshold has been persisted: the row is at
\* level 2 with what was left of the experience
ExpNormalizedWitness ==
    \E i \in PlayerIds :
        /\ db[i].level = 2
        /\ db[i].exp < 95
        /\ db[i].max_hp = 30

\* C8: in every player record 0 <= forest_fights <= MAX_DAILY_FOREST_FIGHTS.
FightsInRange ==
    \A r \in Records :
        0 <= r.forest_fights /\ r.forest_fights <= MAX_DAILY_FOREST_FIGHTS

\* one row holds a spent budget, saved after its last encounter, while a
\* reset has refilled another
FightsInRangeWitness ==
    \E i, j \in PlayerIds :
        /\ db[i].forest_fights = 0
        /\ db[j].forest_fights = MAX_DAILY_FOREST_FIGHTS
        /\ fights > 0

\* C9: a daily_reset that read a marker absent or older than its date
\* either commits all of: every row with forest_fights at the maximum,
\* alive and current_hp = max_hp; one more reset news event; the marker at
\* its date -- or ends leaving rows, news and marker as they were.
ResetAtomic ==
    [][\A p \in PlayerIds :
          (/\ pc[p] = "resetw" /\ pc'[p] # "resetw"
           /\ (rlast[p] = NoMarker \/ StrLess(rlast[p], rtoday[p])))
          => \/ /\ pc'[p] = "login"
                /\ \A i \in PlayerIds :
                      /\ db'[i].forest_fights = MAX_DAILY_FOREST_FIGHTS
                      /\ db'[i].alive
                      /\ db'[i].current_hp = db[i].max_hp
                      /\ db'[i].max_hp = db[i].max_hp
                /\ news'["reset"] = news["reset"] + 1
                /\ \A k \in NewsKinds \ {"reset"} : news'[k] = news[k]
                /\ marker' = rtoday[p]
             \/ /\ pc'[p] = "off"
                /\ db' = db /\ news' = news /\ marker' = marker]_vars

\* a reset has committed: the row that was dead with 4 fights left and 50
\* gold is alive at full health with the maximum, the news holds the
\* event and the marker is the date of the reset
ResetAtomicWitness ==
    \E p \in PlayerIds :
        /\ pc[p] = "login"
        /\ StrLess(rlast[p], rtoday[p])
        /\ marker = rtoday[p]
        /\ news["reset"] = 1
        /\ db[2].gold = 50 /\ db[2].alive /\ db[2].current_hp = db[2].max_hp
        /\ db[2].forest_fights = MAX_DAILY_FOREST_FIGHTS

\* C10: an encounter takes exactly 1 from forest_fights, at its end,
\* whether the player won or died: generating the monster and every round
\* of the battle leave forest_fights as it was.
EncounterSpendsOneFight ==
    [][\A p \in PlayerIds :
          /\ (pc[p] = "forest" /\ pc'[p] = "battle")
                => mem'[p].forest_fights = mem[p].forest_fights
          /\ (pc[p] = "battle" /\ pc'[p] = "battle")
                => mem'[p].forest_fights = mem[p].forest_fights
          /\ (pc[p] = "battle" /\ pc'[p] \in {"forest", "menu", "save"})
                => mem'[p].forest_fights = mem[p].forest_fights - 1
          /\ (pc[p] # "battle" /\ mem[p] # NoPlayer /\ mem'[p] # NoPlayer)
                => mem'[p].forest_fights = mem[p].forest_fights]_vars

\* a session has left the encounter it died in: the struct it is about
\* to save holds one fight less than the row it was loaded from
EncounterSpendsOneFightWitness ==
    \E p \in PlayerIds :
        /\ pc[p] = "save"
        /\ ~mem[p].alive
        /\ memDuels[p] = {}
        /\ fights = 1
        /\ db[p].forest_fights = 1
        /\ mem[p].forest_fights = 0

\* C11: explore_forest called with no fight left, or with a dead player,
\* returns with every player field, the rows and the news as they were;
\* an encounter starts only for a living player with a fight left.
ForestGuarded ==
    [][\A p \in PlayerIds :
          /\ (/\ acts' = acts + 1
              /\ lastCall' = [proc |-> p, op |-> "explore_forest"]
              /\ (mem[p].forest_fights = 0 \/ ~mem[p].alive))
                => /\ pc'[p] \notin {"forest", "battle"}
                   /\ mem' = mem /\ monster' = monster /\ pending' = pending
                   /\ db' = db /\ news' = news /\ lost' = lost
          /\ (pc[p] # "battle" /\ pc'[p] = "battle")
                => (mem[p].forest_fights > 0 /\ mem[p].alive)]_vars

\* a player whose budget is spent has chosen the forest and is back at the
\* menu, with the struct equal to the row it was loaded from
ForestGuardedWitness ==
    \E p \in PlayerIds :
        /\ lastCall = [proc |-> p, op |-> "explore_forest"]
        /\ pc[p] = "menu"
        /\ mem[p].forest_fights = 0
        /\ mem[p] = db[p]
        /\ fights = 0

\* the news appends of each kind attempted so far, landed or failed
Emitted(kind) == news[kind] + lost[kind]

\* C12: the round of a forest battle in which the monster's strike takes
\* the player's hit points to 0 or below leaves alive = false and
\* current_hp = 0 and emits one death event; the dead player fights no
\* more round, and the encounter then ends with forest_fights one lower,
\* no second event, and the exploration and the session's menu over.
ForestDeath ==
    [][\A p \in PlayerIds :
          /\ (pc[p] = "battle" /\ pc'[p] = "battle" /\ mem'[p] # mem[p])
                => /\ mem[p].alive
                   /\ mem'[p].alive <=> mem'[p].current_hp > 0
                   /\ mem'[p].current_hp >= 0
                   /\ mem'[p].forest_fights = mem[p].forest_fights
                   /\ ~mem'[p].alive
                        => /\ Emitted("death")' = Emitted("death") + 1
                           /\ \A k \in NewsKinds \ {"death"} :
                                 Emitted(k)' = Emitted(k)
          /\ (pc[p] = "battle" /\ ~mem[p].alive /\ pc'[p] \notin {"battle", "off"})
                => /\ pc'[p] = "save"
                   /\ mem'[p] = [mem[p] EXCEPT !.forest_fights = @ - 1]
                   /\ news' = news /\ lost' = lost]_vars

\* a player has died in the forest and left the encounter: one death
\* event was emitted and the session is about to save
ForestDeathWitness ==
    \E p \in PlayerIds :
        /\ pc[p] = "save"
        /\ lastCall = [proc |-> p, op |-> "explore_forest"]
        /\ ~mem[p].alive /\ mem[p].current_hp = 0
        /\ Emitted("death") = 1
        /\ mem[p].forest_fights = db[p].forest_fights - 1

\* C13: challenge_player changes no struct and no row and emits no news
\* when it ends before the first round: with no living opponent to list
\* it cannot get to load a target; listing, cancelling or a bad choice
\* change nothing; loading the target changes nothing, and a target found
\* dead, or not found, sends the player back to the menu.
ChallengeEndsEarlyClean ==
    [][\A p \in PlayerIds :
          /\ (acts' = acts + 1 /\ lastCall' = [proc |-> p, op |-> "challenge_player"])
                => /\ mem' = mem /\ target' = target /\ pending' = pending
                   /\ db' = db /\ news' = news /\ lost' = lost /\ duelLog' = duelLog
                   /\ (\A i \in PlayerIds \ {p} : ~db[i].alive) => pc'[p] = "menu"
                   /\ pc'[p] \in {"menu", "duelload"}
          /\ (pc[p] = "duelload" /\ pc'[p] \notin {"duelload", "off"})
                => /\ mem' = mem /\ pending' = pending
                   /\ db' = db /\ news' = news /\ lost' = lost /\ duelLog' = duelLog
                   /\ pc'[p] \in {"menu", "duel"}
                   /\ pc'[p] = "menu" => target'[p] = NoPlayer
                   /\ pc'[p] = "duel" => (target'[p] = db[sel[p]] /\ target'[p].alive)]_vars

\* a player has challenged with no living opponent in the store and is
\* back at the menu with the struct it was loaded with
ChallengeEndsEarlyCleanWitness ==
    \E p \in PlayerIds :
        /\ lastCall = [proc |-> p, op |-> "challenge_player"]
        /\ pc[p] = "menu"
        /\ \A i \in PlayerIds \ {p} : ~db[i].alive
        /\ mem[p] = db[p]
        /\ Len(duelLog) = 0

\* the thresholds of the levels from .. to - 1 added up: 100 * (from + .. + (to - 1))
ThresholdsCrossed(from, to) == 50 * (to * (to - 1) - from * (from - 1))

\* C14: one call of try_level_up on a player with exp >= 0 applies n >= 0
\* level-ups, each against the threshold of the level it leaves: exp falls
\* by those thresholds and ends in 0 .. level*100 - 1, level rises by n,
\* max_hp by 10n, attack by 2n, defense by n, current_hp is max_hp if
\* n > 0, nothing else changes, and one log task is spawned per level-up.
LevelingPolicy ==
    [][\A p \in PlayerIds :
          (pc[p] = "levelin" /\ pc'[p] = "levelout")
          => LET a == mem[p]
                 b == mem'[p]
                 n == b.level - a.level
             IN /\ n >= 0
                /\ (a.exp < a.level * 100) <=> (n = 0)
                /\ b.exp >= 0 /\ b.exp < b.level * 100
                /\ b.exp = a.exp - ThresholdsCrossed(a.level, b.level)
                /\ b.max_hp = a.max_hp + 10 * n
                /\ b.attack = a.attack + 2 * n
                /\ b.defense = a.defense + n
                /\ b.current_hp = IF n > 0 THEN b.max_hp ELSE a.current_hp
                /\ b = [a EXCEPT !.exp = b.exp, !.level = b.level, !.max_hp = b.max_hp,
                                 !.attack = b.attack, !.defense = b.defense,
                                 !.current_hp = b.current_hp]
                /\ pending'[p]["levelup"] = pending[p]["levelup"] + n]_vars

\* three level-ups in one call: level 1 with 650 became level 4 with 50
LevelingPolicyWitness ==
    \E p \in PlayerIds :
        /\ pc[p] = "levelout"
        /\ mem[p].level = 4 /\ mem[p].exp = 50
        /\ mem[p].max_hp = 50 /\ mem[p].current_hp = 50
        /\ pending[p]["levelup"] = 3

\* C15: try_level_up on level 1 with exp 250 returns level 2 with exp 150.
LevelOneExp250 ==
    [][\A p \in PlayerIds :
          (pc[p] = "levelin" /\ pc'[p] = "levelout" /\ mem[p].level = 1 /\ mem[p].exp = 250)
          => (mem'[p].level = 2 /\ mem'[p].exp = 150)]_vars

\* the call has returned level 2 with exp 150 after exactly one level-up
LevelOneExp250Witness ==
    \E p \in PlayerIds :
        /\ pc[p] = "levelout"
        /\ mem[p].level = 2 /\ mem[p].exp = 150
        /\ pending[p]["levelup"] = 1

\* C16: a forest battle or a duel, once started, reaches a state in which
\* one combatant's hit points are 0, and it is left only from such a
\* state; every round takes hit points from a combatant that is hit.
CombatConcludes ==
    /\ [][\A p \in PlayerIds :
             /\ (pc[p] = "battle" /\ pc'[p] # "battle")
                   => (~mem[p].alive \/ monster[p].hp = 0)
             /\ (pc[p] = "duel" /\ pc'[p] # "duel")
                   => (~mem[p].alive \/ ~target[p].alive)
             /\ (pc[p] = "battle" /\ pc'[p] = "battle" /\ rounds'[p] # rounds[p])
                   => /\ monster'[p].hp < monster[p].hp
                      /\ monster'[p].hp = 0 \/ mem'[p].current_hp < mem[p].current_hp
             /\ (pc[p] = "duel" /\ pc'[p] = "duel" /\ rounds'[p] # rounds[p])
                   => /\ target'[p].current_hp < target[p].current_hp
                      /\ ~target'[p].alive \/ mem'[p].current_hp < mem[p].current_hp]_vars
    /\ \A p \in PlayerIds :
          /\ (pc[p] = "battle")
                ~> (pc[p] = "battle" /\ (~mem[p].alive \/ monster[p].hp = 0))
          /\ (pc[p] = "duel")
                ~> (pc[p] = "duel" /\ (~mem[p].alive \/ ~target[p].alive))

\* a duel has concluded in its third round, after two rounds that both
\* combatants survived
CombatConcludesWitness ==
    \E p \in PlayerIds :
        /\ pc[p] = "duel"
        /\ rounds[p] = 3
        /\ ~target[p].alive
        /\ mem[p].alive /\ mem[p].level = 2

\* C17: create_player fails, leaving the store as it was, when a row
\* exists whose name equals the requested one ignoring letter case; so no
\* two rows ever have names that are equal ignoring case.
CreateRejectsNameIgnoringCase ==
    /\ [][\A p \in PlayerIds :
             (pc[p] = "offer" /\ GetPlayerByName(db, name_input[p]) # {})
                => db' = db]_vars
    /\ [](\A i, j \in DOMAIN db :
             i # j => ToLower(db[i].name) # ToLower(db[j].name))

\* C18: a news append that fails neither undoes nor prevents the change
\* it reports, and the process goes on: the kill, the death, the duel
\* outcome, the level-up, the marriage and the daily reset are applied
\* all the same.
NewsFailureKeepsChange ==
    [][\A k \in NewsKinds :
          (lost'[k] = lost[k] + 1)
          => \E p \in PlayerIds :
                CASE k = "reset" ->
                       /\ pc[p] = "resetw" /\ pc'[p] = "login"
                       /\ marker' = rtoday[p]
                       /\ \A i \in PlayerIds :
                             /\ db'[i].alive
                             /\ db'[i].forest_fights = MAX_DAILY_FOREST_FIGHTS
                             /\ db'[i].current_hp = db'[i].max_hp
                  [] k = "kill" ->
                       /\ pc[p] = "battle" /\ pc'[p] = "battle"
                       /\ monster[p].hp > 0 /\ monster'[p].hp = 0
                       /\ mem'[p].gold = mem[p].gold + monster[p].gold_reward
                  [] k = "death" ->
                       /\ pc[p] = "battle" /\ pc'[p] = "battle"
                       /\ mem[p].alive /\ ~mem'[p].alive /\ mem'[p].current_hp = 0
                  [] k = "duel" ->
                       /\ pc[p] = "duel" /\ pc'[p] = "duel"
                       /\ mem[p].alive /\ target[p].alive
                       /\ ~(mem'[p].alive /\ target'[p].alive)
                  [] k = "levelup" ->
                       /\ pending'[p][k] = pending[p][k] - 1
                       /\ pc'[p] = pc[p] /\ mem'[p] = mem[p] /\ mem[p].level > 1
                  [] k = "marriage" ->
                       /\ pending'[p][k] = pending[p][k] - 1
                       /\ pc'[p] = pc[p] /\ mem'[p] = mem[p] /\ mem[p].spouse = "Violet"]_vars

\* C19: no failure of a store call ends the process: no run of main
\* panics because daily_reset, the duel settlement or the save failed.
StoreFailureKeepsProcess ==
    \A p \in PlayerIds : ~panicked[p]

\* the fields update_player writes
MutableFields ==
    {"level", "exp", "gold", "current_hp", "max_hp", "attack", "defense",
     "forest_fights", "alive", "romance", "spouse"}

\* C20: the save at the end of a session writes the mutable fields of the
\* session's struct to the player's own row and nothing else: the row's
\* id, name and password and every other row are as they were.
SaveFrame ==
    [][\A p \in PlayerIds :
          (pc[p] = "save" /\ pc'[p] = "off")
          => /\ \A i \in PlayerIds \ {mem[p].id} : db'[i] = db[i]
             /\ db'[mem[p].id].id = db[mem[p].id].id
             /\ db'[mem[p].id].name = db[mem[p].id].name
             /\ db'[mem[p].id].password = db[mem[p].id].password
             /\ \/ db' = db
                \/ \A f \in MutableFields : db'[mem[p].id][f] = mem[p][f]]_vars

\* a session that bought a drink has saved: its row holds the drink, under
\* the same name, and the other row is the one the store began with
SaveFrameWitness ==
    \E p \in PlayerIds :
        /\ pc[p] = "off"
        /\ lastCall = [proc |-> p, op |-> "drink"]
        /\ db[p].gold = 6 /\ db[p].current_hp = 8
        /\ db[p].id = p /\ db[p].name = PlayerName(p)
        /\ \A i \in PlayerIds \ {p} : db[i] \in InitRows(i)

\* C21: the persisted level, max_hp, attack and defense of a player never
\* decrease, whatever the player's own session, the duels other players
\* start against it and the daily resets do, in whatever order.
PersistedStatsNeverDecrease ==
    [][\A i \in PlayerIds :
          /\ db'[i].level >= db[i].level
          /\ db'[i].max_hp >= db[i].max_hp
          /\ db'[i].attack >= db[i].attack
          /\ db'[i].defense >= db[i].defense]_vars

\* C22: the round that concludes a duel pays experience to the challenger
\* only: a challenger that wins gains exactly 50 * the target's level, on
\* which the leveling policy then runs, and the target's progression is
\* untouched; a target that wins gains half the challenger's gold and its
\* exp, level, max_hp, attack and defense are as they were.
DuelXpOneSided ==
    [][\A p \in PlayerIds :
          (/\ pc[p] = "duel" /\ pc'[p] = "duel"
           /\ mem[p].alive /\ target[p].alive
           /\ ~(mem'[p].alive /\ target'[p].alive))
          => /\ \A f \in {"exp", "level", "max_hp", "attack", "defense"} :
                   target'[p][f] = target[p][f]
             /\ IF mem'[p].alive
                THEN /\ ~target'[p].alive
                     /\ mem'[p].level >= mem[p].level
                     /\ mem'[p].exp + ThresholdsCrossed(mem[p].level, mem'[p].level)
                           = mem[p].exp + 50 * target[p].level
                     /\ mem'[p].exp >= 0 /\ mem'[p].exp < mem'[p].level * 100
                ELSE /\ target'[p].alive
                     /\ target'[p].gold = target[p].gold + mem[p].gold \div 2
                     /\ \A f \in {"exp", "level", "max_hp", "attack", "defense"} :
                           mem'[p][f] = mem[p][f]]_vars

\* a level-1 challenger with 95 exp has defeated a level-3 target: 150 exp
\* were gained, one threshold of 100 crossed, and the target is at level 3
DuelXpOneSidedWitness ==
    \E p \in PlayerIds :
        /\ pc[p] = "duel"
        /\ mem[p].alive /\ ~target[p].alive
        /\ target[p].level = 3 /\ target[p].exp = db[target[p].id].exp
        /\ db[p].level = 1 /\ db[p].exp = 95
        /\ mem[p].level = 2 /\ mem[p].exp = 145

\* the sessions whose duel the step concludes
Concluding ==
    {p \in PlayerIds :
        /\ pc[p] = "duel" /\ pc'[p] = "duel"
        /\ mem[p].alive /\ target[p].alive
        /\ ~(mem'[p].alive /\ target'[p].alive)}

\* C23: the round that concludes a duel emits one duel-outcome event,
\* whichever side won and whatever the attack of either combatant, and
\* nothing else emits one: the events emitted are as many as the duels
\* concluded.
DuelOutcomeLogged ==
    /\ [][/\ Emitted("duel")' = Emitted("duel") + Cardinality(Concluding)
          /\ \A k \in {"kill", "death"} :
                Concluding # {} => Emitted(k)' = Emitted(k)]_vars
    /\ [](Emitted("duel") = Len(duelLog))

\* a duel between combatants below the forest's threshold has been lost
\* by the challenger and settled, with its one event emitted
DuelOutcomeLoggedWitness ==
    \E p \in PlayerIds :
        /\ pc[p] = "save"
        /\ ~mem[p].alive /\ db[2].alive
        /\ mem[p].attack <= KILL_NEWS_ATTACK /\ db[2].attack <= KILL_NEWS_ATTACK
        /\ db[2].gold > 11
        /\ Len(duelLog) = 1 /\ Emitted("duel") = 1

\* the sessions whose monster the step kills
Slaying ==
    {p \in PlayerIds :
        /\ pc[p] = "battle" /\ pc'[p] = "battle"
        /\ monster[p].hp > 0 /\ monster'[p].hp = 0}

GoldNonNegative ==
    \A r \in Records : r.gold >= 0

\* a player with exactly the price of a drink has bought one and holds
\* no gold
GoldNonNegativeWitness ==
    \E p \in PlayerIds :
        /\ lastCall = [proc |-> p, op |-> "drink"]
        /\ db[p].gold = DRINK_PRICE
        /\ mem[p].gold = 0
        /\ mem[p].current_hp > db[p].current_hp

\* C26: in every round of a forest battle and of a duel the player
\* strikes first, taking 1 .. attack from the opponent's hit points (what
\* is left of them, at the kill), and the opponent strikes back, in the
\* same way, exactly when it has hit points left after that strike; one
\* whose hit points are 0 takes nothing from the other afterwards, and a
\* combat is left with the hit points of exactly one combatant at 0.
StrikeOrder ==
    [][\A p \in PlayerIds :
          /\ (pc[p] = "battle" /\ pc'[p] = "battle" /\ rounds'[p] # rounds[p])
                => /\ mem[p].current_hp > 0 /\ monster[p].hp > 0
                   /\ monster[p].hp - monster'[p].hp \in 1 .. mem[p].attack
                   /\ monster'[p].hp >= 0
                   /\ IF monster'[p].hp > 0
                      THEN mem[p].current_hp - mem'[p].current_hp \in 1 .. monster[p].attack
                      ELSE mem'[p].current_hp >= mem[p].current_hp
          /\ (pc[p] = "duel" /\ pc'[p] = "duel" /\ rounds'[p] # rounds[p])
                => /\ mem[p].current_hp > 0 /\ target[p].current_hp > 0
                   /\ target[p].current_hp - target'[p].current_hp \in 1 .. mem[p].attack
                   /\ target'[p].current_hp >= 0
                   /\ IF target'[p].current_hp > 0
                      THEN mem[p].current_hp - mem'[p].current_hp \in 1 .. target[p].attack
                      ELSE mem'[p].current_hp >= mem[p].current_hp
          /\ (pc[p] = "battle" /\ pc'[p] = "battle"
                 /\ (mem[p].current_hp = 0 \/ monster[p].hp = 0))
                => (mem'[p] = mem[p] /\ monster'[p] = monster[p])
          /\ (pc[p] = "duel" /\ pc'[p] = "duel"
                 /\ (mem[p].current_hp = 0 \/ target[p].current_hp = 0))
                => (mem'[p] = mem[p] /\ target'[p] = target[p])
          /\ (pc[p] = "battle" /\ pc'[p] \notin {"battle", "off"})
                => (mem[p].current_hp = 0) # (monster[p].hp = 0)
          /\ (pc[p] = "duel" /\ pc'[p] \notin {"duel", "off"})
                => (mem[p].current_hp = 0) # (target[p].current_hp = 0)]_vars

\* a duel has ended in its second round with the challenger dead: the
\* target, struck first in both rounds, stands with 1 hit point of 3
StrikeOrderWitness ==
    \E p \in PlayerIds :
        /\ pc[p] = "duel"
        /\ rounds[p] = 2
        /\ mem[p].current_hp = 0
        /\ target[p].current_hp = 1
        /\ db[target[p].id].current_hp = 3

\* C27: the round in which the player slays the monster adds the
\* monster's gold_reward to the player's gold and its exp_reward to the
\* player's exp, on which the leveling policy then runs; the monster does
\* not strike in that round: the player's hit points are as they were, or
\* at the new maximum after a level-up.
KillRewards ==
    [][\A p \in Slaying :
          /\ mem'[p].gold = mem[p].gold + monster[p].gold_reward
          /\ mem'[p].exp + ThresholdsCrossed(mem[p].level, mem'[p].level)
                = mem[p].exp + monster[p].exp_reward
          /\ mem'[p].level >= mem[p].level
          /\ mem'[p].exp >= 0 /\ mem'[p].exp < mem'[p].level * 100
          /\ mem'[p].current_hp =
                IF mem'[p].level > mem[p].level THEN mem'[p].max_hp ELSE mem[p].current_hp
          /\ mem'[p].alive
          /\ mem'[p].forest_fights = mem[p].forest_fights]_vars

\* a player with 1 hit point and no gold has slain a monster without a
\* level-up: it holds the reward, more than 1 gold, and its 1 hit point
KillRewardsWitness ==
    \E p \in PlayerIds :
        /\ pc[p] = "battle"
        /\ monster[p].hp = 0
        /\ db[p].gold = 0 /\ db[p].exp = 0
        /\ mem[p].gold = monster[p].gold_reward /\ mem[p].gold > 1
        /\ mem[p].exp = monster[p].exp_reward
        /\ mem[p].level = db[p].level
        /\ mem[p].current_hp = 1

\* C28: a call of try_level_up dispatches as many level-up news appends
\* as it gains levels: level_after - level_before tasks are spawned, none
\* when the level stays.
LevelUpNewsPerLevel ==
    [][\A p \in PlayerIds :
          (pc[p] = "levelin" /\ pc'[p] = "levelout")
          => /\ pending'[p]["levelup"] - pending[p]["levelup"]
                   = mem'[p].level - mem[p].level
             /\ pending'[p]["marriage"] = pending[p]["marriage"]
             /\ news' = news /\ lost' = lost]_vars

\* a call on level 1 with 300 exp has gained two levels and dispatched
\* two appends
LevelUpNewsPerLevelWitness ==
    \E p \in PlayerIds :
        /\ pc[p] = "levelout"
        /\ mem[p].level = 3 /\ mem[p].exp = 0
        /\ mem[p].attack = 9
        /\ pending[p]["levelup"] = 2

\* C29: the monster generated for a player of level >= 1 is built on one
\* entry of the table with level_factor = 1 + (level - 1) / 2, rounded
\* down: base_hp * factor <= hp <= base_hp * factor + 5 * level,
\* base_attack * factor <= attack <= base_attack * factor + level,
\* exp_reward = max(1, hp / 2 + attack) and 1 <= gold_reward <= 3 * attack.
MonsterWithinFormula ==
    [][\A p \in PlayerIds :
          (pc[p] = "forest" /\ pc'[p] = "battle")
          => LET m == monster'[p]
                 level == mem[p].level
                 level_factor == 1 + (level - 1) \div 2
             IN /\ level >= 1
                /\ \E k \in 1 .. Len(MONSTER_TEMPLATES) :
                      LET t == MONSTER_TEMPLATES[k] IN
                        /\ m.name = t.name
                        /\ t.base_hp * level_factor <= m.hp
                        /\ m.hp <= t.base_hp * level_factor + 5 * level
                        /\ t.base_attack * level_factor <= m.attack
                        /\ m.attack <= t.base_attack * level_factor + level
                /\ m.exp_reward = Max(1, m.hp \div 2 + m.attack)
                /\ 1 <= m.gold_reward /\ m.gold_reward <= 3 * m.attack]_vars

\* a player of level 4 has met the strongest monster of its level: a
\* Forest Dragon of factor 2 with every draw at the top of its range
MonsterWithinFormulaWitness ==
    \E p \in PlayerIds :
        /\ pc[p] = "battle" /\ rounds[p] = 0
        /\ mem[p].level = 4
        /\ monster[p].name = "Forest Dragon"
        /\ monster[p].hp = 120 /\ monster[p].attack = 28
        /\ monster[p].exp_reward = 88 /\ monster[p].gold_reward = 84

\* the columns the daily reset leaves alone
ResetKeptFields ==
    {"id", "name", "password", "level", "exp", "gold", "max_hp", "attack",
     "defense", "romance", "spouse"}

\* C30: an effective daily reset writes forest_fights, alive and
\* current_hp only: every row's level, exp, gold, max_hp, attack, defense,
\* romance, spouse, name and credential are after it what they were
\* before, and no row is added or removed.
ResetFrame ==
    [][applied' # applied
          => /\ DOMAIN db' = DOMAIN db
             /\ \A i \in DOMAIN db : \A f \in ResetKeptFields : db'[i][f] = db[i][f]]_vars

\* a reset has gone over a row that had gained a level and gold in the
\* forest: the row is refilled and healed at level 2
ResetFrameWitness ==
    \E p \in PlayerIds :
        /\ pc[p] = "login"
        /\ StrLess(rlast[p], rtoday[p]) /\ marker = rtoday[p]
        /\ fights = 1 /\ Len(duelLog) = 0
        /\ \E i \in PlayerIds :
              /\ db[i].level = 2 /\ db[i].gold > 11
              /\ db[i].forest_fights = MAX_DAILY_FOREST_FIGHTS
              /\ db[i].current_hp = 30

\* the gold of the rows 1 .. n of a table
RECURSIVE GoldUpTo(_, _)
GoldUpTo(rows, n) == IF n = 0 THEN 0 ELSE rows[n].gold + GoldUpTo(rows, n - 1)

\* the gold all persisted records hold together
PersistedGold(rows) == GoldUpTo(rows, Cardinality(DOMAIN rows))

\* C31: when a duel is settled against a target whose row already holds
\* the outcome of a duel by another challenger, the gold of all persisted
\* records together is what it was before the settlement, and a target
\* this duel defeated had not been defeated already: the target is not
\* looted, nor defeated, twice from one snapshot.
TwoChallengersConserveGold ==
    [][\A p \in PlayerIds :
          (/\ pc[p] = "duel" /\ pc'[p] \notin {"duel", "off"}
           /\ db' # db
           /\ \E d \in rowDuels[target[p].id] :
                 /\ duelLog[d].target = target[p].id
                 /\ duelLog[d].challenger # mem[p].id)
          => /\ PersistedGold(db') = PersistedGold(db)
             /\ ~target[p].alive => db[target[p].id].alive]_vars

\* C32: a save by a session leaves in its player's row every duel outcome
\* the row holds in which that player was the target: the outcome stays
\* recorded in the row, and a row the duel left dead is not alive after
\* the save.
SaveKeepsSettledDuel ==
    [][\A p \in PlayerIds :
          (pc[p] = "save" /\ pc'[p] = "off")
          => \A d \in rowDuels[p] :
                duelLog[d].target = p
                => /\ d \in rowDuels'[p]
                   /\ ~db[p].alive => ~db'[p].alive]_vars

\* the columns the UPDATE of daily_reset sets
ResetFields == {"forest_fights", "alive", "current_hp"}

\* the rows a step of session p writes from a struct that was loaded
\* before the last effective reset
StaleWrites(p) ==
    {i \in DOMAIN db :
        /\ db'[i] # db[i]
        /\ \/ /\ pc[p] \in {"save", "duel"}
              /\ mem[p].id = i
              /\ memApplied[p] # applied
           \/ /\ pc[p] = "duel"
              /\ target[p].id = i
              /\ tgtApplied[p] # applied}

\* C33: a step that writes a row from a struct loaded before the last
\* effective daily reset (the save of a session, or a duel settlement
\* writing its challenger or its target) leaves forest_fights, alive and
\* current_hp of the row as the reset and later writes left them.
StaleWriteKeepsReset ==
    [][\A p \in PlayerIds : \A i \in StaleWrites(p) :
          \A f \in ResetFields : db'[i][f] = db[i][f]]_vars

\* C34: a persisted row that is dead becomes alive only in a step that
\* commits an effective daily reset.
DeadUntilReset ==
    [][\A i \in DOMAIN db :
          (~db[i].alive /\ db'[i].alive) => applied' # applied]_vars

\* C35: the forest encounters a player has ended since the last effective
\* daily reset, over all sessions of that player, number at most
\* MAX_DAILY_FOREST_FIGHTS.
BudgetKept ==
    \A i \in DOMAIN resolved : resolved[i] <= MAX_DAILY_FOREST_FIGHTS

\* the fields in which two structs of one player differ
Changed(a, b) == {f \in DOMAIN a : a[f] # b[f]}

\* what a duel may change on the combatant it kills, on a challenger who
\* lives and on a target who lives
DuelLoserFields == {"current_hp", "alive", "gold"}
DuelChallengerFields ==
    {"gold", "exp", "level", "max_hp", "attack", "defense", "current_hp"}
DuelTargetFields == {"gold", "current_hp"}

\* the sessions whose duel transaction the step commits
Settling ==
    {p \in PlayerIds :
        /\ pc[p] = "duel" /\ pc'[p] # "duel"
        /\ ~(mem[p].alive /\ target[p].alive)
        /\ db' # db}

MarkerNeverBackwards ==
    [][marker = NoMarker \/ ~StrLess(marker', marker)]_vars

\* the marriage events dispatched so far: the spawned tasks that have not
\* run, those that appended to the news and those whose append failed
MarriagesDispatched(pend, nws, lst) ==
    nws["marriage"] + lst["marriage"] + pend[1]["marriage"] + pend[2]["marriage"]

\* C38: for players who start with romance 0 and no spouse, a step never
\* lowers romance; romance never exceeds 5; the spouse is "Violet" exactly
\* when romance is 5 and is empty before; a step of a player already
\* married to Violet changes nothing of the player and dispatches no
\* event; and the marriage events dispatched are one for each married
\* player.
FlirtLadder ==
    [][/\ \A p \in PlayerIds :
            /\ mem'[p].romance >= mem[p].romance
            /\ mem'[p].romance <= MARRIAGE_ROMANCE
            /\ mem'[p].spouse =
                  (IF mem'[p].romance = MARRIAGE_ROMANCE THEN "Violet" ELSE "")
            /\ mem[p].spouse = "Violet"
               => /\ mem'[p] = mem[p]
                  /\ pending'[p]["marriage"] <= pending[p]["marriage"]
       /\ MarriagesDispatched(pending', news', lost')
            = Cardinality({p \in PlayerIds : mem'[p].spouse = "Violet"})]_vars

\* a player has flirted five times and once more, the other not at all,
\* and the marriage event is in the news
FlirtLadderWitness ==
    \E p \in PlayerIds :
        /\ mem[p].romance = MARRIAGE_ROMANCE /\ mem[p].spouse = "Violet"
        /\ \A q \in PlayerIds \ {p} : mem[q].romance = 0
        /\ acts = MaxActs - MaxFlirts + MARRIAGE_ROMANCE + 1
        /\ lastCall = [proc |-> p, op |-> "flirt_with_violet"]
        /\ news["marriage"] = 1
====
